---- MODULE Spec2Model ----
(***************************************************************************)
(* A model of the Garmin synchronisation service: the Redis sliding-window *)
(* rate limiter, the GarminClient wrapper and the /sync request handler.   *)
(*                                                                         *)
(* Time is the integer clock second that int(time.time()) yields.          *)
(*   SpecRL      the rate limiter alone, called by several instances       *)
(*   SpecClient  GarminClient objects driven method by method              *)
(*   Spec        /sync request handlers over the shared database           *)
(***************************************************************************)
EXTENDS Integers, Sequences, FiniteSets, TLC

\* ------------------------------------------------------------------ bounds
RLMaxTime == 2        \* last clock second of a rate-limiter run
MaxCalls == 3         \* is_allowed calls recorded in one rate-limiter run
MaxLimit == 2         \* limits tried: 1..MaxLimit
MaxWindow == 2        \* windows tried: 1..MaxWindow

Users == {"u1", "u2"}
NoUser == "none"                       \* GarminClient(user_id=None)
Instances == {"i1", "i2"}              \* service processes sharing Redis
Clients == {"c1"}                      \* GarminClient objects

RATE_LIMIT == 60            \* _rate_limit_check: limit=60
RATE_WINDOW == 60           \* _rate_limit_check: window=60
MIN_REQUEST_INTERVAL == 1   \* self._min_request_interval = 1.0
STOP_AFTER_ATTEMPT == 3     \* stop_after_attempt(3)
WAIT_MIN == 4               \* wait_exponential(multiplier=1, min=4, max=10)
WAIT_MAX == 10
CMaxTicks == 9             \* clock seconds a client run lasts
MaxIdleTicks == 1           \* of them, seconds in which no client sleeps
BMaxTicks == 1              \* clock seconds a run of rate checks lasts
RMaxTicks == 10             \* clock seconds a run beside another client lasts
Procs == {"p1", "p2"}       \* POST /sync requests being served
ActivityIds == {"a1", ""}   \* activity ids upstream may return ("": none)
DAYS_CAP == 30              \* range(min(days, 30))
MaxDays == 1                \* the days a sync request asks for
MaxSyncs == 2               \* sync requests in a run
SMaxTicks == 12             \* clock seconds a run of syncs lasts
MaxFaults == 1              \* upstream calls that fail in a run of syncs
MaxEncrypts == 2            \* encrypt_credential calls of a run of the cipher
MaxCreds == 3               \* credential requests in a run
MaxNum == 1                 \* numbers in a raw activity: 0..MaxNum and halves
MaxKeys == 2                \* keys present in a raw activity or metric payload
MaxLevels == 2              \* entries of a sleepLevels list
MaxItems == 2               \* items of a batch of raw activities

VARIABLES
  now,        \* the wall clock, in whole seconds
  redis,      \* key -> [zset: the sorted set, expireAt: when the key expires]
  rlpc,       \* instance -> "idle" | "exec": where its is_allowed call stands
  rlargs,     \* instance -> [key, current_time] of the call in flight
  rlhist,     \* the is_allowed calls completed, in the order Redis ran them
  rl_limit,   \* the limit the callers of a rate-limiter run pass
  rl_window,  \* the window the callers of a rate-limiter run pass
  clients,    \* client -> the GarminClient object's fields
  call,       \* client -> the data method in progress (its retry state)
  outcome,    \* how the method last called on a client went
  idle,       \* the seconds that have passed with nothing going on
  sync,       \* request -> where its POST /sync handler stands, and its locals
  garmin_activities,      \* user -> activity_id -> committed rows
  garmin_health_metrics,  \* user -> <<metric_type, day>> -> committed rows
  activity_raw_data,      \* user -> activity_id -> the raw_data of those rows
  metric_data,            \* user -> <<metric_type, day>> -> their metric_data
  credentials,            \* user -> whether usable credentials are stored
  last,       \* user -> the sync that last ended for the user
  nsyncs,     \* the sync requests made so far
  faults,     \* the upstream calls of sync requests that have failed so far
  user_credentials,  \* the rows of the user_credentials table, oldest first
  cred,       \* request -> where its credentials handler stands, and its locals
  vault,      \* user -> the store or revoke that last completed for the user
  ncreds,     \* the credential requests made so far
  issued,     \* what encrypt_credential has returned so far, oldest first
  entropy,    \* how many random values have been drawn so far
  crypt,      \* how the last call of decrypt_credential on its own went
  raw_activity,  \* the dict given to normalize_activity: key -> value, or None
  normalized,    \* what normalize_activity made of raw_activity
  raw_metric,    \* the payload and the date given to a metric normalizer
  normalized_metric,  \* what the metric normalizer made of raw_metric
  raw_activities,     \* the list given to normalize_activities_batch
  normalized_activities,  \* what normalize_activities_batch made of it
  activities,           \* the list upstream returned to get_activities
  start_date,           \* the start_date get_activities was given
  filtered_activities,  \* what get_activities made of activities
  request,    \* the GET request the router was handed
  response    \* the response the matched route gave to request

rlvars == <<rlpc, rlargs, rlhist, rl_limit, rl_window>>
clvars == <<clients, call, outcome>>
syvars == <<sync, garmin_activities, garmin_health_metrics, activity_raw_data,
            metric_data, credentials, last, nsyncs, faults>>
crvars == <<user_credentials, cred, vault, ncreds, issued, entropy, crypt>>
nzvars == <<raw_activity, normalized, raw_metric, normalized_metric,
            raw_activities, normalized_activities>>
flvars == <<activities, start_date, filtered_activities>>
rtvars == <<request, response>>
vars == <<now, redis, rlpc, rlargs, rlhist, rl_limit, rl_window,
          clients, call, outcome, idle, sync, garmin_activities,
          garmin_health_metrics, activity_raw_data, metric_data, credentials,
          last, nsyncs, faults, user_credentials, cred, vault, ncreds, issued,
          entropy, crypt, raw_activity, normalized, raw_metric,
          normalized_metric, raw_activities, normalized_activities,
          activities, start_date, filtered_activities, request, response>>

\* ------------------------------------------------------------ rate limiter
\* f"garmin_requests:{self.user_id}"
RateKey(u) == <<"garmin_requests", u>>
RateKeys == {RateKey(u) : u \in Users}

\* str(current_time): the decimal digits of a natural number
RECURSIVE Str(_)
Str(n) == IF n < 10 THEN <<n>> ELSE Append(Str(n \div 10), n % 10)

\* ZREMRANGEBYSCORE key lo hi: drop the members whose score is in [lo, hi]
MutZRemExclusive(S, lo, hi) == {e \in S : ~(lo <= e.score /\ e.score < hi)}
ZRemRangeByScore(S, lo, hi) == {e \in S : ~(lo <= e.score /\ e.score <= hi)}

\* ZCARD key
ZCard(S) == Cardinality(S)

\* ZADD key {member: score}: a member already present only has its score set
ZAdd(S, m, s) == {e \in S : e.member # m} \cup {[member |-> m, score |-> s]}

\* What Redis holds under a key at second t: nothing once the key has expired.
\* EXPIRE counts from the instant of the pipeline, so in the very second the
\* time to live runs out the key is gone only for a caller that comes past
\* that instant (late).
Live(entry, t, late) ==
  IF entry.expireAt < t \/ (entry.expireAt = t /\ late) THEN {} ELSE entry.zset

NoKey == [zset |-> {}, expireAt |-> 0]

\* The value is_allowed returns for the count the pipeline read.
MutAllowedAtLimit(current_count, limit) == current_count <= limit
Allowed(current_count, limit) == current_count < limit

\* The MULTI/EXEC pipeline of is_allowed, run by Redis at second t for a caller
\* that read the clock at second current_time.
pipeline_execute(entry, current_time, window, t, late) ==
  LET window_start == current_time - window
      removed == ZRemRangeByScore(Live(entry, t, late), 0, window_start)
      added == ZAdd(removed, Str(current_time), current_time)
  IN [count |-> ZCard(removed),
      entry |-> [zset |-> added, expireAt |-> t + window]]

\* is_allowed with the clock read and the pipeline in the same second: the
\* range removal then clears whatever an expiry would, so late is immaterial.
is_allowed(r, key, limit, window, t) ==
  LET res == pipeline_execute(r[key], t, window, t, TRUE)
  IN [ok |-> Allowed(res.count, limit),
      redis |-> [r EXCEPT ![key] = res.entry]]

\* ------------------------------------------------------------ GarminClient
\* GarminClient.__init__: client is the upstream session (0: None)
ClientInit(u) ==
  [client |-> 0, authenticated |-> FALSE, user_id |-> u, last_request_time |-> 0]

\* Garmin(username, password): a session object other than the one held
NewSession(old) == IF old = 1 THEN 2 ELSE 1

NoCall == [kind |-> "idle", attempt |-> 0, calls |-> 0, resumeAt |-> 0]
NoOutcome == [client |-> "none", op |-> "none", ret |-> "none", calls |-> 0,
              slept |-> FALSE, attempts |-> 0]

FetchKinds == {"activities", "heart_rate", "sleep", "body_composition", "stress"}
MetricKinds == FetchKinds \ {"activities"}
\* An upstream call returns, raises ConnectionError/TimeoutError, or raises
\* something else.
UpOutcomes == {"ok", "conn", "other"}

\* _rate_limit_check: only a client with a user_id consults the limiter
MutRateLimitCheckSharedKey(c, r, t) ==
  IF c.user_id # NoUser
  THEN is_allowed(r, RateKey("u1"), RATE_LIMIT, RATE_WINDOW, t)
  ELSE [ok |-> TRUE, redis |-> r]
rate_limit_check(c, r, t) ==
  IF c.user_id # NoUser
  THEN is_allowed(r, RateKey(c.user_id), RATE_LIMIT, RATE_WINDOW, t)
  ELSE [ok |-> TRUE, redis |-> r]

\* _wait_for_rate_limit at second t. The clock is read in whole seconds here:
\* a request one clock second after the last may be less than 1.0 s after it
\* (sub), and a sleep that starts in the second of the last request ends in
\* the next one.
wait_for_rate_limit(c, t, sub) ==
  LET since == t - c.last_request_time
      slept == since < MIN_REQUEST_INTERVAL \/ (since = MIN_REQUEST_INTERVAL /\ sub)
  IN [slept |-> slept,
      last_request_time |-> IF since < MIN_REQUEST_INTERVAL
                            THEN c.last_request_time + MIN_REQUEST_INTERVAL
                            ELSE t]

\* authenticate(username, password) at second t; hs and val are how the
\* upstream handshake and the validation call (get_user_summary) go.
MutAuthRejectAfterHandshake(c, r, t, sub, hs, val) ==
  LET rl == rate_limit_check(c, r, t)
      w == wait_for_rate_limit(c, t, sub)
      waited == [c EXCEPT !.last_request_time = w.last_request_time]
  IN IF ~rl.ok
     THEN [client |-> c, redis |-> rl.redis, ret |-> "False", calls |-> 1,
           slept |-> FALSE]
     ELSE IF hs = "ok" /\ val = "ok"
     THEN [client |-> [waited EXCEPT !.client = NewSession(c.client),
                                     !.authenticated = TRUE],
           redis |-> rl.redis, ret |-> "True", calls |-> 2, slept |-> w.slept]
     ELSE [client |-> [waited EXCEPT !.authenticated = FALSE,
                         !.client = IF hs = "ok" THEN NewSession(c.client) ELSE @],
           redis |-> rl.redis, ret |-> "False",
           calls |-> IF hs = "ok" THEN 2 ELSE 1, slept |-> w.slept]
MutAuthRejectResets(c, r, t, sub, hs, val) ==
  LET rl == rate_limit_check(c, r, t)
      w == wait_for_rate_limit(c, t, sub)
      waited == [c EXCEPT !.last_request_time = w.last_request_time]
  IN IF ~rl.ok
     THEN [client |-> [c EXCEPT !.authenticated = FALSE], redis |-> rl.redis,
           ret |-> "False", calls |-> 0, slept |-> FALSE]
     ELSE IF hs = "ok" /\ val = "ok"
     THEN [client |-> [waited EXCEPT !.client = NewSession(c.client),
                                     !.authenticated = TRUE],
           redis |-> rl.redis, ret |-> "True", calls |-> 2, slept |-> w.slept]
     ELSE [client |-> [waited EXCEPT !.authenticated = FALSE,
                         !.client = IF hs = "ok" THEN NewSession(c.client) ELSE @],
           redis |-> rl.redis, ret |-> "False",
           calls |-> IF hs = "ok" THEN 2 ELSE 1, slept |-> w.slept]
MutAuthTrueAfterHandshake(c, r, t, sub, hs, val) ==
  LET rl == rate_limit_check(c, r, t)
      w == wait_for_rate_limit(c, t, sub)
      waited == [c EXCEPT !.last_request_time = w.last_request_time]
  IN IF ~rl.ok
     THEN [client |-> c, redis |-> rl.redis, ret |-> "False", calls |-> 0,
           slept |-> FALSE]
     ELSE IF hs = "ok"
     THEN [client |-> [waited EXCEPT !.client = NewSession(c.client),
                                     !.authenticated = TRUE],
           redis |-> rl.redis, ret |-> "True", calls |-> 2, slept |-> w.slept]
     ELSE [client |-> [waited EXCEPT !.authenticated = FALSE],
           redis |-> rl.redis, ret |-> "False", calls |-> 1, slept |-> w.slept]
authenticate(c, r, t, sub, hs, val) ==
  LET rl == rate_limit_check(c, r, t)
      w == wait_for_rate_limit(c, t, sub)
      waited == [c EXCEPT !.last_request_time = w.last_request_time]
  IN IF ~rl.ok
     THEN \* return False, from inside the try: nothing else is touched
          [client |-> c, redis |-> rl.redis, ret |-> "False", calls |-> 0,
           slept |-> FALSE]
     ELSE IF hs = "ok" /\ val = "ok"
     THEN [client |-> [waited EXCEPT !.client = NewSession(c.client),
                                     !.authenticated = TRUE],
           redis |-> rl.redis, ret |-> "True", calls |-> 2, slept |-> w.slept]
     ELSE \* except Exception: self._authenticated = False; return False.
          \* self.client is assigned once the handshake has returned.
          [client |-> [waited EXCEPT !.authenticated = FALSE,
                         !.client = IF hs = "ok" THEN NewSession(c.client) ELSE @],
           redis |-> rl.redis, ret |-> "False",
           calls |-> IF hs = "ok" THEN 2 ELSE 1, slept |-> w.slept]

\* One attempt of a data method at second t; up is how its upstream call goes.
\* The two checks stand before the try block; inside it get_activities logs
\* and re-raises, a metric fetcher logs and returns None.
MutFetchChecksInsideTry(c, r, t, sub, kind, up) ==
  LET rl == rate_limit_check(c, r, t)
      w == wait_for_rate_limit(c, t, sub)
      failed == IF kind = "activities" THEN "ValueError" ELSE "None"
  IN IF ~c.authenticated
     THEN [client |-> c, redis |-> r, ret |-> failed, calls |-> 0,
           slept |-> FALSE]
     ELSE IF ~rl.ok
     THEN [client |-> c, redis |-> rl.redis, ret |-> "RateLimitExceeded",
           calls |-> 0, slept |-> FALSE]
     ELSE [client |-> [c EXCEPT !.last_request_time = w.last_request_time],
           redis |-> rl.redis, calls |-> 1, slept |-> w.slept,
           ret |-> IF up = "ok" THEN "data"
                   ELSE IF kind # "activities" THEN "None"
                   ELSE IF up = "conn" THEN "ConnectionError" ELSE "Exception"]
MutFetchErrorResets(c, r, t, sub, kind, up) ==
  LET rl == rate_limit_check(c, r, t)
      w == wait_for_rate_limit(c, t, sub)
  IN IF ~c.authenticated
     THEN [client |-> c, redis |-> r, ret |-> "ValueError", calls |-> 0,
           slept |-> FALSE]
     ELSE IF ~rl.ok
     THEN [client |-> c, redis |-> rl.redis, ret |-> "RateLimitExceeded",
           calls |-> 0, slept |-> FALSE]
     ELSE [client |-> [c EXCEPT !.last_request_time = w.last_request_time,
                                !.authenticated = (up = "ok")],
           redis |-> rl.redis, calls |-> 1, slept |-> w.slept,
           ret |-> IF up = "ok" THEN "data"
                   ELSE IF kind # "activities" THEN "None"
                   ELSE IF up = "conn" THEN "ConnectionError" ELSE "Exception"]
MutFetchAttemptUnmetered(c, r, t, sub, kind, up) ==
  LET w == wait_for_rate_limit(c, t, sub)
  IN IF ~c.authenticated
     THEN [client |-> c, redis |-> r, ret |-> "ValueError", calls |-> 0,
           slept |-> FALSE]
     ELSE [client |-> [c EXCEPT !.last_request_time = w.last_request_time],
           redis |-> r, calls |-> 1, slept |-> w.slept,
           ret |-> IF up = "ok" THEN "data"
                   ELSE IF kind # "activities" THEN "None"
                   ELSE IF up = "conn" THEN "ConnectionError" ELSE "Exception"]
MutFetchRateLimitInsideTry(c, r, t, sub, kind, up) ==
  LET rl == rate_limit_check(c, r, t)
      w == wait_for_rate_limit(c, t, sub)
  IN IF ~c.authenticated
     THEN [client |-> c, redis |-> r, ret |-> "ValueError", calls |-> 0,
           slept |-> FALSE]
     ELSE IF ~rl.ok
     THEN [client |-> c, redis |-> rl.redis, calls |-> 0, slept |-> FALSE,
           ret |-> IF kind = "activities" THEN "RateLimitExceeded" ELSE "None"]
     ELSE [client |-> [c EXCEPT !.last_request_time = w.last_request_time],
           redis |-> rl.redis, calls |-> 1, slept |-> w.slept,
           ret |-> IF up = "ok" THEN "data"
                   ELSE IF kind # "activities" THEN "None"
                   ELSE IF up = "conn" THEN "ConnectionError" ELSE "Exception"]
fetch_attempt(c, r, t, sub, kind, up) ==
  LET rl == rate_limit_check(c, r, t)
      w == wait_for_rate_limit(c, t, sub)
  IN IF ~c.authenticated
     THEN \* raise ValueError("Not authenticated with Garmin Connect")
          [client |-> c, redis |-> r, ret |-> "ValueError", calls |-> 0,
           slept |-> FALSE]
     ELSE IF ~rl.ok
     THEN \* raise Exception("Rate limit exceeded")
          [client |-> c, redis |-> rl.redis, ret |-> "RateLimitExceeded",
           calls |-> 0, slept |-> FALSE]
     ELSE [client |-> [c EXCEPT !.last_request_time = w.last_request_time],
           redis |-> rl.redis, calls |-> 1, slept |-> w.slept,
           ret |-> IF up = "ok" THEN "data"
                   ELSE IF kind # "activities" THEN "None"
                   ELSE IF up = "conn" THEN "ConnectionError" ELSE "Exception"]

\* tenacity's @retry around every data method: an attempt that raised
\* ConnectionError/TimeoutError is tried again until stop_after_attempt(3),
\* then RetryError is raised (reraise is not set); anything else passes through.
MutRetryAnyError(ret, attempt) ==
  IF ret \notin {"ConnectionError", "Exception"} THEN ret
  ELSE IF attempt < STOP_AFTER_ATTEMPT THEN "retry" ELSE "RetryError"
RetryDecision(ret, attempt) ==
  IF ret # "ConnectionError" THEN ret
  ELSE IF attempt < STOP_AFTER_ATTEMPT THEN "retry" ELSE "RetryError"

\* wait_exponential(multiplier=1, min=4, max=10) after the given attempt:
\* multiplier * 2^(attempt - 1), clamped between min and max
RECURSIVE Pow2(_)
Pow2(n) == IF n = 0 THEN 1 ELSE 2 * Pow2(n - 1)
Max(a, b) == IF a >= b THEN a ELSE b
Min(a, b) == IF a <= b THEN a ELSE b
RetryWait(attempt) == Max(WAIT_MIN, Min(Pow2(attempt - 1), WAIT_MAX))

\* ------------------------------------------------------- POST /sync: state
Days == 0..(MaxDays - 1)          \* target_date = today - i
MetricOrder == <<"heart_rate", "sleep", "body_composition", "stress">>
MetricKeys == MetricKinds \X Days
SMaxTime == RATE_WINDOW + SMaxTicks

\* A request not being served
SyncIdle ==
  [pc |-> "idle", user_id |-> NoUser, days |-> 0, client |-> ClientInit(NoUser),
   attempt |-> 0, resumeAt |-> 0, acts |-> {}, i |-> 0, k |-> 1,
   new_activities |-> {}, new_metrics |-> {},
   got_activities |-> {}, got_metrics |-> {}, rerun |-> FALSE,
   prev_activities |-> {}, prev_metrics |-> {},
   status |-> 0, activities_synced |-> 0, health_metrics_synced |-> 0,
   start_date |-> 0, metric_fetches |-> 0, fetched |-> {},
   sync_period_days |-> 0]

NoSync == [ok |-> FALSE, days |-> 0, got_activities |-> {}, got_metrics |-> {}]

\* Empty tables, no request in progress
SyncInit ==
  /\ sync = [p \in Procs |-> SyncIdle]
  /\ garmin_activities = [u \in Users |-> [a \in ActivityIds |-> 0]]
  /\ garmin_health_metrics = [u \in Users |-> [m \in MetricKeys |-> 0]]
  /\ activity_raw_data = [u \in Users |-> [a \in ActivityIds |-> {}]]
  /\ metric_data = [u \in Users |-> [m \in MetricKeys |-> {}]]
  /\ last = [u \in Users |-> NoSync]
  /\ nsyncs = 0
  /\ faults = 0

\* ------------------------------------------------- credential vault: state
SECRET_KEY == "master"            \* settings.SECRET_KEY
Usernames == {"alice"}
Passwords == {"pw1", "pw2"}
Surrogate == "lone surrogate"     \* a str that str.encode() cannot encode
Plaintexts == Usernames \cup Passwords \cup {"", Surrogate}

\* str.encode() and bytes.decode(): UTF-8; a lone surrogate raises
\* UnicodeEncodeError
Encodable(s) == s # Surrogate
Encode(s) == [utf8 |-> s]
Decode(b) == b.utf8

\* base64.b64encode(b).decode() is the canonical text of the bytes.
\* base64.b64decode(s) (validate=False) discards the characters outside the
\* alphabet and the spare bits of the last character, so that other texts
\* ("noncanonical") decode to the same bytes; a text with wrong padding
\* ("invalid") raises binascii.Error.
TextForms == {"canonical", "noncanonical", "invalid"}
B64Encode(b) == [b64 |-> b, form |-> "canonical"]
B64Valid(s) == s.form # "invalid"
B64Decode(s) == s.b64

\* secrets.token_bytes(16), os.urandom(16): a value not drawn before, the
\* e-th draw being the value e + 1
token_bytes(e) == e + 1

\* PBKDF2HMAC(SHA256, length=32, salt, iterations=100000).derive(master_key)
MutDeriveKeyNoSalt(salt) == [master |-> SECRET_KEY, salt |-> 0]
derive_key(salt) == [master |-> SECRET_KEY, salt |-> salt]

\* Fernet(key).encrypt(data): the token, authenticated under the key.
\* Fernet(key).decrypt(token): the data when the HMAC verifies, that is when
\* the token is as it was made and was made under this key; else InvalidToken.
FernetEncrypt(key, iv, data) ==
  [key |-> key, iv |-> iv, data |-> data, intact |-> TRUE]
FernetVerifies(key, token) == token.intact /\ token.key = key
Tampered(token) == [token EXCEPT !.intact = FALSE]

NoSaltText == [b64 |-> 0, form |-> "invalid"]
NoTokenText ==
  [b64 |-> Tampered(FernetEncrypt(derive_key(0), 0, Encode(""))),
   form |-> "invalid"]

\* encrypt_credential(credential), salt and iv being the random values drawn
MutEncryptFixedSalt(credential, salt, iv) ==
  IF ~Encodable(credential)
  THEN [ret |-> "UnicodeEncodeError", encrypted_data |-> NoTokenText,
        salt |-> NoSaltText, draws |-> 1]
  ELSE [ret |-> "ok",
        encrypted_data |->
          B64Encode(FernetEncrypt(derive_key(0), iv, Encode(credential))),
        salt |-> B64Encode(0), draws |-> 2]
encrypt_credential(credential, salt, iv) ==
  IF ~Encodable(credential)
  THEN [ret |-> "UnicodeEncodeError", encrypted_data |-> NoTokenText,
        salt |-> NoSaltText, draws |-> 1]
  ELSE [ret |-> "ok",
        encrypted_data |->
          B64Encode(FernetEncrypt(derive_key(salt), iv, Encode(credential))),
        salt |-> B64Encode(salt), draws |-> 2]

\* decrypt_credential(encrypted_data, salt)
MutDecryptRawSalt(encrypted_data, salt) ==
  IF ~B64Valid(salt) \/ ~B64Valid(encrypted_data)
  THEN [ret |-> "binascii.Error", value |-> ""]
  ELSE LET key == derive_key(0 - B64Decode(salt))
           token == B64Decode(encrypted_data)
       IN IF FernetVerifies(key, token)
          THEN [ret |-> "ok", value |-> Decode(token.data)]
          ELSE [ret |-> "InvalidToken", value |-> ""]
decrypt_credential(encrypted_data, salt) ==
  IF ~B64Valid(salt) \/ ~B64Valid(encrypted_data)
  THEN [ret |-> "binascii.Error", value |-> ""]
  ELSE LET key == derive_key(B64Decode(salt))
           token == B64Decode(encrypted_data)
       IN IF FernetVerifies(key, token)
          THEN [ret |-> "ok", value |-> Decode(token.data)]
          ELSE [ret |-> "InvalidToken", value |-> ""]

\* A request for the credentials endpoints not being served
CredIdle ==
  [pc |-> "idle", op |-> "none", user_id |-> NoUser, username |-> "",
   password |-> "", existing |-> FALSE,
   encrypted_username |-> encrypt_credential(Surrogate, 0, 0),
   encrypted_password |-> encrypt_credential(Surrogate, 0, 0),
   deactivated |-> 0, raised |-> FALSE, status |-> 0, ret |-> "none"]
NoOp == [op |-> "none", username |-> "", password |-> ""]
NoCrypt ==
  [op |-> "none", of |-> 0, with |-> 0, data_form |-> "canonical",
   salt_form |-> "canonical", tampered |-> FALSE, ret |-> "none", value |-> ""]

\* The UserCredential row store_credentials writes
UserCredential(user_id, eu, ep) ==
  [user_id |-> user_id, service |-> "garmin",
   credential_type |-> "username_password",
   encrypted_data |-> ep.encrypted_data, salt |-> ep.salt, is_active |-> TRUE,
   metadata_ |-> [username_encrypted |-> eu.encrypted_data,
                  username_salt |-> eu.salt]]

\* The table and the cipher's history after the given users have each stored
\* alice/pw1 once, one after the other
RECURSIVE Seeded(_)
Seeded(us) ==
  IF us = <<>> THEN [rows |-> <<>>, issued |-> <<>>, entropy |-> 0]
  ELSE LET b == Seeded(SubSeq(us, 1, Len(us) - 1))
           e == b.entropy
           eu == encrypt_credential("alice", token_bytes(e), token_bytes(e + 1))
           ep == encrypt_credential("pw1", token_bytes(e + 2), token_bytes(e + 3))
       IN [rows |-> Append(b.rows, UserCredential(us[Len(us)], eu, ep)),
           issued |-> b.issued \o
              <<[credential |-> "alice", encrypted_data |-> eu.encrypted_data,
                 salt |-> eu.salt],
                [credential |-> "pw1", encrypted_data |-> ep.encrypted_data,
                 salt |-> ep.salt]>>,
           entropy |-> e + 4]

VaultInit(us) ==
  /\ user_credentials = Seeded(us).rows
  /\ issued = Seeded(us).issued
  /\ entropy = Seeded(us).entropy
  /\ cred = [p \in Procs |-> CredIdle]
  /\ vault = [u \in Users |-> NoOp]
  /\ ncreds = 0
  /\ crypt = NoCrypt

\* ------------------------------------------------------ normalizer: state
\* Python values as the normalizer sees them: the type, twice the number
\* (floats come in halves), the text of a str ("nan" marks float('nan')).
PyInt(n) == [type |-> "int", twice |-> 2 * n, text |-> ""]
PyFloat(k) == [type |-> "float", twice |-> k, text |-> ""]
PyStr(s) == [type |-> "str", twice |-> 0, text |-> s]
NaN == [type |-> "float", twice |-> 0, text |-> "nan"]
PyTrue == [type |-> "bool", twice |-> 2, text |-> ""]
PyFalse == [type |-> "bool", twice |-> 0, text |-> ""]
PyNone == [type |-> "NoneType", twice |-> 0, text |-> ""]
Missing == [type |-> "missing", twice |-> 0, text |-> ""]   \* key not in the dict
\* a list and a dict, the text being the literal
PyList(t) == [type |-> "list", twice |-> 0, text |-> t]
PyDict(t) == [type |-> "dict", twice |-> 0, text |-> t]
\* a datetime, the text being its isoformat()
PyDatetime(t) == [type |-> "datetime", twice |-> 0, text |-> t]

\* What upstream may send under a metric key
Sources ==
  {PyInt(n) : n \in 0..MaxNum} \cup {PyFloat(k) : k \in (0 - 1)..(2 * MaxNum + 1)}
    \cup {NaN, PyTrue, PyFalse, PyStr("1"), PyStr(""), PyNone, Missing}
ActivityMetricKeys == {"duration", "distance", "calories", "averageHR", "maxHR"}

\* The keys normalize_activity reads, and what upstream may send under the
\* others of them
ActivityKeys ==
  ActivityMetricKeys \cup {"activityId", "activityName", "startTimeLocal",
                           "activityType"}
IsoZ == "2024-01-15T10:00:00Z"
IsoNaive == "2024-01-15T10:00:00"
IdSources == {PyInt(1), PyInt(0), PyStr("a1"), PyStr(""), PyNone}
NameSources == {PyStr("Morning Run"), PyNone}
TimeSources ==
  {PyStr(IsoZ), PyStr(IsoNaive), PyStr("yesterday"), PyStr(""), PyNone,
   PyInt(0), PyInt(1), PyList("[1]")}
TypeSources ==
  {PyDict("{'typeKey': 'Running'}"), PyDict("{'typeKey': None}"),
   PyDict("{'typeKey': 5}"), PyDict("{'typeId': 1}"), PyDict("{}"),
   PyStr("running"), PyInt(1), PyList("[1]"), PyNone}
SourcesOf(key) ==
  CASE key = "activityId" -> IdSources
    [] key = "activityName" -> NameSources
    [] key = "startTimeLocal" -> TimeSources
    [] key = "activityType" -> TypeSources
    [] OTHER -> (Sources \ {Missing}) \cup {PyList("[1]")}

\* isinstance(raw, dict); raw.get(key); raw.get(key, default)
IsMapping(raw) == DOMAIN raw = ActivityKeys
Get(raw, key) == IF raw[key] = Missing THEN PyNone ELSE raw[key]
GetOr(raw, key, default) == IF raw[key] = Missing THEN default ELSE raw[key]

\* bool(v), isinstance(v, (int, float)) (bool is a subclass of int), int(v)
Truthy(v) ==
  CASE v.type \in {"int", "float", "bool"} -> v.twice # 0 \/ v.text = "nan"
    [] v.type = "str" -> v.text # ""
    [] v.type = "list" -> v.text # "[]"
    [] v.type = "dict" -> v.text # "{}"
    [] OTHER -> FALSE
IsNumber(v) == v.type \in {"int", "float", "bool"}
IntRaises(v) == v = NaN
int(v) ==
  PyInt(IF v.twice >= 0 THEN v.twice \div 2 ELSE 0 - ((0 - v.twice) \div 2))

\* Decimal(str(v)): str(True) is no number
DecimalRaises(v) == v.type = "bool"
Decimal(v) == [v EXCEPT !.type = "Decimal"]

\* str(v) of an activityId
str(v) ==
  CASE v.type = "str" -> v
    [] v.type = "int" -> PyStr(ToString(v.twice \div 2))
    [] v.type = "NoneType" -> PyStr("None")

\* s.replace('Z', '+00:00') and datetime.fromisoformat of the result, which
\* raises ValueError for a text that is no ISO-8601 date
ReplaceZ(t) == IF t = IsoZ THEN "2024-01-15T10:00:00+00:00" ELSE t
IsoEarly == "2024-01-14T08:00:00"
IsIso(t) == t \in {IsoNaive, IsoEarly, "2024-01-15T10:00:00+00:00"}
fromisoformat(t) == PyDatetime(t)

\* d.get('typeKey', '') of a dict, and s.lower()
TypeKey(d) ==
  CASE d.text = "{'typeKey': 'Running'}" -> PyStr("Running")
    [] d.text = "{'typeKey': None}" -> PyNone
    [] d.text = "{'typeKey': 5}" -> PyInt(5)
    [] OTHER -> PyStr("")
lower(v) ==
  CASE v.text = "Running" -> PyStr("running")
    [] v.text = "DEEP" -> PyStr("deep")
    [] v.text = "REM" -> PyStr("rem")
    [] OTHER -> v

NotNormalized ==
  [ret |-> "none", activity_id |-> PyNone, activity_name |-> PyNone,
   activity_type |-> PyNone, start_time |-> PyNone,
   duration_seconds |-> PyNone, distance_meters |-> PyNone,
   calories |-> PyNone, avg_heart_rate |-> PyNone, max_heart_rate |-> PyNone]

\* normalize_activity(raw_activity): the record it returns, or the exception
\* it re-raises
normalize_activity(raw) ==
  IF ~IsMapping(raw) THEN [NotNormalized EXCEPT !.ret = "AttributeError"]
  ELSE
  LET start_time_str == GetOr(raw, "startTimeLocal", PyStr(""))
      at == raw["activityType"]
      typed == at # Missing /\ Truthy(at)
      duration == Get(raw, "duration")
      distance == Get(raw, "distance")
      calories == Get(raw, "calories")
      avg_hr == Get(raw, "averageHR")
      max_hr == Get(raw, "maxHR")
      Converts(v) == Truthy(v) /\ IsNumber(v)
  IN IF Truthy(start_time_str) /\ start_time_str.type # "str"
     THEN [NotNormalized EXCEPT !.ret = "AttributeError"]
     ELSE IF typed /\ (at.type # "dict" \/ TypeKey(at).type # "str")
     THEN [NotNormalized EXCEPT !.ret = "AttributeError"]
     ELSE IF Converts(duration) /\ IntRaises(duration)
     THEN [NotNormalized EXCEPT !.ret = "ValueError"]
     ELSE IF Converts(distance) /\ DecimalRaises(distance)
     THEN [NotNormalized EXCEPT !.ret = "InvalidOperation"]
     ELSE IF \E v \in {calories, avg_hr, max_hr} : Converts(v) /\ IntRaises(v)
     THEN [NotNormalized EXCEPT !.ret = "ValueError"]
     ELSE [ret |-> "ok",
           activity_id |-> str(GetOr(raw, "activityId", PyStr(""))),
           activity_name |-> GetOr(raw, "activityName", PyStr("")),
           activity_type |-> IF typed THEN lower(TypeKey(at)) ELSE PyNone,
           start_time |->
             IF Truthy(start_time_str) /\ IsIso(ReplaceZ(start_time_str.text))
             THEN fromisoformat(ReplaceZ(start_time_str.text)) ELSE PyNone,
           duration_seconds |->
             IF Converts(duration) THEN int(duration) ELSE duration,
           distance_meters |->
             IF Converts(distance) THEN Decimal(distance) ELSE distance,
           calories |-> IF Converts(calories) THEN int(calories) ELSE calories,
           avg_heart_rate |-> IF Converts(avg_hr) THEN int(avg_hr) ELSE PyNone,
           max_heart_rate |-> IF Converts(max_hr) THEN int(max_hr) ELSE PyNone]

\* The recognized keys of each metric normalizer that are copied as they
\* are: <<input key, output key>>
CopiedKeys(kind) ==
  CASE kind = "heart_rate" ->
         {<<"restingHeartRate", "resting_heart_rate">>,
          <<"heartRateZones", "hr_zones">>, <<"timeInZones", "time_in_zones">>,
          <<"hrv", "hrv">>, <<"maxHeartRate", "max_heart_rate">>,
          <<"averageHeartRate", "avg_heart_rate">>,
          <<"heartRateValues", "hr_samples">>}
    [] kind = "sleep" ->
         {<<"sleepTimeSeconds", "sleep_duration_seconds">>,
          <<"sleepEfficiency", "sleep_efficiency">>,
          <<"sleepScore", "sleep_score">>, <<"restlessness", "restlessness">>}
    [] kind = "body_composition" ->
         {<<"weight", "weight_kg">>, <<"bodyFat", "body_fat_percentage">>,
          <<"muscleMass", "muscle_mass_kg">>, <<"bmi", "bmi">>,
          <<"bodyWater", "body_water_percentage">>,
          <<"boneMass", "bone_mass_kg">>}
    [] kind = "stress" ->
         {<<"averageStressLevel", "avg_stress_level">>,
          <<"maxStressLevel", "max_stress_level">>,
          <<"stressDuration", "stress_duration_seconds">>,
          <<"restStressDuration", "rest_duration_seconds">>,
          <<"activityStressDuration", "activity_stress_duration_seconds">>,
          <<"lowStressDuration", "low_stress_duration_seconds">>,
          <<"mediumStressDuration", "medium_stress_duration_seconds">>,
          <<"highStressDuration", "high_stress_duration_seconds">>,
          <<"stressLevelValues", "stress_samples">>}
\* The keys normalize_sleep_data converts: the stages and the two timestamps
ConvertedKeys(kind) ==
  IF kind = "sleep"
  THEN {<<"sleepLevels", "sleep_stages">>,
        <<"sleepStartTimestampLocal", "sleep_start">>,
        <<"sleepEndTimestampLocal", "sleep_end">>}
  ELSE {}
RecognizedKeys(kind) == CopiedKeys(kind) \cup ConvertedKeys(kind)

\* The keys a payload may have (one of them no normalizer knows), and every
\* name a key of metric_data could bear
UnknownKey == "userProfilePK"
InputKeys(kind) == {r[1] : r \in RecognizedKeys(kind)} \cup {UnknownKey}
OutputNames(kind) == InputKeys(kind) \cup {r[2] : r \in RecognizedKeys(kind)}

\* An entry of a sleepLevels list: a dict with 'level' and 'seconds' (either
\* may be missing), or something that is no dict
Level(level, seconds) == [dict |-> TRUE, level |-> level, seconds |-> seconds]
NoDict == [dict |-> FALSE, level |-> Missing, seconds |-> Missing]
LevelSources ==
  {Level(PyStr("DEEP"), PyInt(3)), Level(PyStr("deep"), PyInt(1)),
   Level(PyStr("nap"), PyInt(3)), Level(PyStr("rem"), Missing),
   Level(Missing, PyInt(3)), Level(PyNone, PyInt(3)), NoDict}
Stages == {"deep", "light", "rem", "awake"}
\* every label a sleepLevels entry may bear, lowercased ("": none)
StageLabels == Stages \cup {"nap", ""}
NoStages == [stage \in StageLabels |-> Missing]

\* What upstream may send under a key of a metric payload; PyList("levels")
\* stands for the list in raw_metric.levels
MetricSourcesOf(key) ==
  CASE key = "sleepLevels" -> {PyList("levels"), PyNone, PyInt(1), PyStr("deep")}
    [] key \in {"sleepStartTimestampLocal", "sleepEndTimestampLocal"} ->
         {PyStr(IsoZ), PyStr("yesterday"), PyStr(""), PyNone, PyInt(1)}
    [] OTHER -> {PyInt(1), PyNone}

\* for level in raw_sleep_data['sleepLevels']: the stages after the entries
\* of the list, or the exception an entry raises
RECURSIVE sleep_stages(_)
sleep_stages(levels) ==
  IF levels = <<>> THEN [ret |-> "ok", stages |-> NoStages]
  ELSE LET before == sleep_stages(SubSeq(levels, 1, Len(levels) - 1))
           level == levels[Len(levels)]
           label == IF level.level = Missing THEN PyStr("") ELSE level.level
           stage == lower(label).text
       IN IF before.ret # "ok" THEN before
          ELSE IF ~level.dict \/ label.type # "str"
          THEN [ret |-> "AttributeError", stages |-> NoStages]
          ELSE IF stage \in Stages
          THEN [before EXCEPT !.stages[stage] =
                  IF level.seconds = Missing THEN PyInt(0) ELSE level.seconds]
          ELSE before

\* datetime.combine(target_date, datetime.min.time()).replace(tzinfo=utc)
MidnightUTC(target_date) ==
  [date |-> target_date, time |-> "00:00:00", tzinfo |-> "UTC"]

NotNormalizedMetric(kind) ==
  [ret |-> "none", metric_type |-> kind, recorded_date |-> MidnightUTC(0),
   metric_data |-> [name \in OutputNames(kind) |-> Missing],
   sleep_stages |-> NoStages]

\* normalize_heart_rate_data, normalize_sleep_data, normalize_body_composition
\* and normalize_stress_data (raw, target_date): the record returned, or the
\* exception re-raised. raw is the payload, levels its sleepLevels list.
MutNormalizeMetricNullFills(kind, raw, levels, target_date) ==
  LET none == NotNormalizedMetric(kind)
      Copy(name) ==
        IF \E r \in CopiedKeys(kind) : r[2] = name
        THEN LET r == CHOOSE r \in CopiedKeys(kind) : r[2] = name
             IN IF raw[r[1]] # Missing THEN raw[r[1]] ELSE PyNone
        ELSE Missing
  IN IF DOMAIN raw # InputKeys(kind) THEN [none EXCEPT !.ret = "TypeError"]
     ELSE [ret |-> "ok", metric_type |-> kind,
           recorded_date |-> MidnightUTC(target_date),
           metric_data |-> [name \in OutputNames(kind) |-> Copy(name)],
           sleep_stages |-> NoStages]
normalize_metric(kind, raw, levels, target_date) ==
  LET none == NotNormalizedMetric(kind)
      Copy(name) ==
        IF \E r \in CopiedKeys(kind) : r[2] = name /\ raw[r[1]] # Missing
        THEN raw[(CHOOSE r \in CopiedKeys(kind) : r[2] = name)[1]]
        ELSE Missing
      sl == raw["sleepLevels"]
      st == IF sl = PyList("levels") THEN sleep_stages(levels)
            ELSE IF sl.type = "str" THEN [ret |-> "AttributeError", stages |-> NoStages]
            ELSE [ret |-> "TypeError", stages |-> NoStages]
      Stamp(key) ==
        IF raw[key].type = "str" /\ IsIso(ReplaceZ(raw[key].text))
        THEN fromisoformat(ReplaceZ(raw[key].text)) ELSE Missing
      StampRaises(key) == raw[key] # Missing /\ raw[key].type # "str"
  IN IF DOMAIN raw # InputKeys(kind) THEN [none EXCEPT !.ret = "TypeError"]
     ELSE IF kind # "sleep"
     THEN [ret |-> "ok", metric_type |-> kind,
           recorded_date |-> MidnightUTC(target_date),
           metric_data |-> [name \in OutputNames(kind) |-> Copy(name)],
           sleep_stages |-> NoStages]
     ELSE IF sl # Missing /\ st.ret # "ok" THEN [none EXCEPT !.ret = st.ret]
     ELSE IF StampRaises("sleepStartTimestampLocal")
             \/ StampRaises("sleepEndTimestampLocal")
     THEN [none EXCEPT !.ret = "AttributeError"]
     ELSE [ret |-> "ok", metric_type |-> kind,
           recorded_date |-> MidnightUTC(target_date),
           metric_data |->
             [name \in OutputNames(kind) |->
                CASE name = "sleep_stages" ->
                       IF sl # Missing THEN PyDict("sleep_stages") ELSE Missing
                  [] name = "sleep_start" -> Stamp("sleepStartTimestampLocal")
                  [] name = "sleep_end" -> Stamp("sleepEndTimestampLocal")
                  [] OTHER -> Copy(name)],
           sleep_stages |-> IF sl # Missing THEN st.stages ELSE NoStages]

\* The payload of a kind with the keys in K, each with the value vals gives it
MetricDict(kind, K, vals) ==
  [key \in InputKeys(kind) |-> IF key \in K THEN vals[key] ELSE Missing]
NoMetric ==
  [kind |-> "heart_rate", data |-> MetricDict("heart_rate", {}, <<>>),
   levels |-> <<>>, target_date |-> 0]

\* The dict with the keys in K, each with the value vals gives it
Dict(K, vals) == [key \in ActivityKeys |-> IF key \in K THEN vals[key] ELSE Missing]

\* normalize_activities_batch(raw_activities): the list returned, or the
\* exception that leaves it. An item whose normalization raised is logged
\* with raw_activity.get('activityId', 'unknown').
NoBatch == [ret |-> "none", list |-> <<>>]
RECURSIVE normalize_activities_batch(_)
normalize_activities_batch(items) ==
  IF items = <<>> THEN [ret |-> "ok", list |-> <<>>]
  ELSE LET before == normalize_activities_batch(SubSeq(items, 1, Len(items) - 1))
           raw == items[Len(items)]
           n == normalize_activity(raw)
       IN IF before.ret # "ok" THEN before
          ELSE IF n.ret # "ok"
          THEN IF IsMapping(raw) THEN before
               ELSE [ret |-> "AttributeError", list |-> <<>>]
          ELSE IF Truthy(n.activity_id)
          THEN [before EXCEPT !.list = Append(@, n)]
          ELSE before

\* The normalizer is not in use
NormIdle ==
  /\ raw_activity = Dict({}, <<>>)
  /\ normalized = NotNormalized
  /\ raw_metric = NoMetric
  /\ normalized_metric = NotNormalizedMetric("heart_rate")
  /\ raw_activities = <<>>
  /\ normalized_activities = NoBatch

\* ------------------------------------------- get_activities: the filter
\* start_date as a caller may build it: datetime.now() - timedelta(days), which
\* is naive, or an aware datetime
StartNaive == "2024-01-15T00:00:00"
StartAware == "2024-01-15T00:00:00+00:00"
\* tzinfo is not None, and the instant in hours of the month
Aware(dt) == dt.text \in {ReplaceZ(IsoZ), StartAware}
Hour(dt) ==
  CASE dt.text = IsoEarly -> 14 * 24 + 8
    [] dt.text \in {StartNaive, StartAware} -> 15 * 24
    [] OTHER -> 15 * 24 + 10

\* What upstream may send as an item's startTimeLocal
FilterTimeSources ==
  {Missing, PyStr("invalid-date"), PyStr(IsoEarly), PyStr(IsoNaive),
   PyStr(IsoZ), PyNone}

\* The loop of get_activities over the list upstream returned: the filtered
\* list, or the exception that leaves the method. KeyError and ValueError
\* drop the item; anything else reaches the outer handler, which raises it
\* again.
NoFiltered == [ret |-> "none", list |-> <<>>]
RECURSIVE filter_activities(_, _)
filter_activities(acts, start) ==
  IF acts = <<>> THEN [ret |-> "ok", list |-> <<>>]
  ELSE LET before == filter_activities(SubSeq(acts, 1, Len(acts) - 1), start)
           activity == acts[Len(acts)]
           v == activity["startTimeLocal"]
       IN IF before.ret # "ok" THEN before
          ELSE IF v = Missing THEN before                \* KeyError
          ELSE IF v.type # "str"
          THEN [ret |-> "AttributeError", list |-> <<>>]    \* no .replace
          ELSE IF ~IsIso(ReplaceZ(v.text)) THEN before   \* ValueError
          ELSE LET activity_date == fromisoformat(ReplaceZ(v.text))
               IN IF Aware(activity_date) # Aware(start)
                  THEN \* can't compare offset-naive and offset-aware datetimes
                       [ret |-> "TypeError", list |-> <<>>]
                  ELSE IF Hour(activity_date) >= Hour(start)
                  THEN [before EXCEPT !.list = Append(@, activity)]
                  ELSE before

FilterIdle ==
  /\ activities = <<>>
  /\ start_date = PyDatetime(StartNaive)
  /\ filtered_activities = NoFiltered

\* ------------------------------------------------------ routes: the router
\* The routes in the order routes.py declares them; a path is its segments
\* and a segment in braces takes any value.
Routes ==
  <<[method |-> "POST", path |-> <<"credentials">>, endpoint |-> "store_credentials"],
    [method |-> "DELETE", path |-> <<"credentials">>, endpoint |-> "delete_credentials"],
    [method |-> "POST", path |-> <<"sync">>, endpoint |-> "sync_garmin_data"],
    [method |-> "GET", path |-> <<"activities">>, endpoint |-> "get_activities"],
    [method |-> "GET", path |-> <<"health", "{metric_type}">>,
     endpoint |-> "get_health_metrics"],
    [method |-> "GET", path |-> <<"health", "summary">>,
     endpoint |-> "get_health_summary"],
    [method |-> "GET", path |-> <<"sync", "status">>, endpoint |-> "get_sync_status"]>>
PathMatches(pattern, path) ==
  /\ Len(pattern) = Len(path)
  /\ \A i \in 1..Len(path) : pattern[i] = path[i] \/ pattern[i] = "{metric_type}"
\* The router takes the first route whose path and method match; a path
\* that only other methods serve is 405, a path nothing serves is 404.
Dispatch(method, path) ==
  LET full == {i \in 1..Len(Routes) :
                 PathMatches(Routes[i].path, path) /\ Routes[i].method = method}
      partial == {i \in 1..Len(Routes) : PathMatches(Routes[i].path, path)}
  IN IF full # {} THEN Routes[CHOOSE i \in full : \A j \in full : i <= j].endpoint
     ELSE IF partial # {} THEN "405" ELSE "404"

\* A query parameter that was not sent is the empty set, one that was sent
\* is the set of its value.
NoRequest == [method |-> "GET", path |-> <<>>, user_id |-> {}, days |-> {}]
NoResponse ==
  [status |-> 0, endpoint |-> "none", keys |-> {}, count |-> 0, types |-> {}]
ErrorResponse(endpoint, status) ==
  [status |-> status, endpoint |-> endpoint, keys |-> {"detail"}, count |-> 0,
   types |-> {}]
\* The rows of a user the query selects: recorded_date >= now - days
RECURSIVE CountRows(_, _)
CountRows(rows, K) ==
  IF K = {} THEN 0
  ELSE LET k == CHOOSE k \in K : TRUE IN rows[k] + CountRows(rows, K \ {k})
Selected(kinds, days) == {m \in MetricKeys : m[1] \in kinds /\ m[2] < days}

\* valid_metrics of get_health_metrics; days: Query(7, ge=1, le=90) there
\* and Query(7, ge=1, le=30) in get_health_summary
ValidMetrics == {"heart_rate", "sleep", "body_composition", "stress"}
DefaultDays == 7
MaxMetricsDays == 90
MaxSummaryDays == 30
DaysOf(req) == IF req.days = {} THEN DefaultDays ELSE CHOOSE d \in req.days : TRUE

\* get_health_metrics(metric_type, user_id, days, db)
get_health_metrics(req, metrics) ==
  LET metric_type == req.path[2]
      days == DaysOf(req)
      user_id == CHOOSE u \in req.user_id : TRUE
  IN IF req.user_id = {} \/ days < 1 \/ days > MaxMetricsDays
     THEN ErrorResponse("get_health_metrics", 422)
     ELSE IF metric_type \notin ValidMetrics
     THEN ErrorResponse("get_health_metrics", 400)   \* Invalid metric type
     ELSE [status |-> 200, endpoint |-> "get_health_metrics",
           keys |-> {"metrics", "count", "metric_type", "period_days", "user_id"},
           count |-> CountRows(metrics[user_id], Selected({metric_type}, days)),
           types |-> {metric_type}]

\* get_health_summary(user_id, days, db)
get_health_summary(req, metrics) ==
  LET days == DaysOf(req)
      user_id == CHOOSE u \in req.user_id : TRUE
      found == {m \in Selected(MetricKinds, days) : metrics[user_id][m] > 0}
  IN IF req.user_id = {} \/ days < 1 \/ days > MaxSummaryDays
     THEN ErrorResponse("get_health_summary", 422)
     ELSE [status |-> 200, endpoint |-> "get_health_summary",
           keys |-> {"summary", "period_days", "user_id", "total_metrics"},
           count |-> CountRows(metrics[user_id], Selected(MetricKinds, days)),
           types |-> {m[1] : m \in found}]

\* The response to a request for a path under /health
Respond(req, metrics) ==
  LET endpoint == Dispatch(req.method, req.path)
  IN CASE endpoint = "get_health_metrics" -> get_health_metrics(req, metrics)
       [] endpoint = "get_health_summary" -> get_health_summary(req, metrics)
       [] endpoint = "405" -> ErrorResponse("none", 405)
       [] OTHER -> ErrorResponse("none", 404)

RouteIdle ==
  /\ request = NoRequest
  /\ response = NoResponse

\* ---------------------------------------- clients driven method by method
T0 == RATE_WINDOW   \* a run starts when the clock shows second 60
CMaxTime == T0 + CMaxTicks

\* The user's key two calls short of the limit: a call in each of the last
\* 58 seconds
BusyKey(t) ==
  [zset |-> {[member |-> Str(s), score |-> s] : s \in (t - RATE_WINDOW + 3)..t},
   expireAt |-> t + RATE_WINDOW]

\* The user's key after a call in each of the last 60 seconds
FullKey(t) ==
  [zset |-> {[member |-> Str(s), score |-> s] : s \in (t - RATE_WINDOW + 1)..t},
   expireAt |-> t + RATE_WINDOW]

InitClient ==
  /\ now = T0
  /\ redis \in {[k \in RateKeys |-> NoKey],
                [k \in RateKeys |-> IF k = RateKey("u1") THEN FullKey(T0) ELSE NoKey]}
  /\ rlpc = [i \in Instances |-> "idle"]
  /\ rlargs = [i \in Instances |-> [key |-> RateKey("u1"), current_time |-> 0]]
  /\ rlhist = <<>>
  /\ rl_limit = RATE_LIMIT
  /\ rl_window = RATE_WINDOW
  /\ clients \in [Clients -> {ClientInit(u) : u \in {"u1", NoUser}}]
  /\ call = [c \in Clients |-> NoCall]
  /\ outcome = NoOutcome
  /\ idle = 0
  /\ SyncInit
  /\ VaultInit(<<>>)
  /\ NormIdle
  /\ FilterIdle
  /\ RouteIdle
  /\ credentials = [u \in Users |-> FALSE]

\* The second until which a client is busy: its request spacing sleep, or the
\* backoff sleep before its next attempt.
BusyUntil(c) == Max(clients[c].last_request_time, call[c].resumeAt)

\* Whether the whole seconds leave open if the last request is 1.0 s back
SubChoices(c) ==
  IF now - clients[c].last_request_time = MIN_REQUEST_INTERVAL
  THEN BOOLEAN ELSE {FALSE}

\* client = GarminClient(user_id=...): a new instance for the same user
CNew(c) ==
  /\ call[c].kind = "idle"
  /\ clients[c] # ClientInit(clients[c].user_id)
  /\ clients' = [clients EXCEPT ![c] = ClientInit(clients[c].user_id)]
  /\ outcome' = [NoOutcome EXCEPT !.client = c, !.op = "new"]
  /\ UNCHANGED <<flvars, rtvars, nzvars, crvars, now, redis, rlvars, call, idle, syvars>>

\* await client.authenticate(username, password)
CAuthenticate(c, hs, val, sub) ==
  /\ call[c].kind = "idle"
  /\ now >= BusyUntil(c)
  /\ sub \in SubChoices(c)
  /\ LET a == authenticate(clients[c], redis, now, sub, hs, val)
     IN /\ clients' = [clients EXCEPT ![c] = a.client]
        /\ redis' = a.redis
        /\ outcome' = [client |-> c, op |-> "authenticate", ret |-> a.ret,
                       calls |-> a.calls, slept |-> a.slept, attempts |-> 1]
  /\ UNCHANGED <<flvars, rtvars, nzvars, crvars, now, rlvars, call, idle, syvars>>

\* One attempt of await client.get_<kind>(...), the first or a retry.
CFetch(c, kind, up, sub) ==
  /\ call[c].kind \in {"idle", kind}
  /\ now >= BusyUntil(c)
  /\ sub \in SubChoices(c)
  /\ LET attempt == call[c].attempt + 1
         a == fetch_attempt(clients[c], redis, now, sub, kind, up)
         d == RetryDecision(a.ret, attempt)
         calls == call[c].calls + a.calls
     IN /\ clients' = [clients EXCEPT ![c] = a.client]
        /\ redis' = a.redis
        /\ call' = [call EXCEPT ![c] =
             IF d = "retry"
             THEN [kind |-> kind, attempt |-> attempt, calls |-> calls,
                   resumeAt |-> Max(now, a.client.last_request_time)
                                  + RetryWait(attempt)]
             ELSE NoCall]
        /\ outcome' = [client |-> c, op |-> kind, ret |-> d, calls |-> calls,
                       slept |-> a.slept, attempts |-> attempt]
  /\ UNCHANGED <<flvars, rtvars, nzvars, crvars, now, rlvars, idle, syvars>>

\* A sleeping client wakes: the clock reaches the second it sleeps until.
CWake(c) ==
  /\ now < BusyUntil(c)
  /\ BusyUntil(c) <= CMaxTime
  /\ \A d \in Clients : now < BusyUntil(d) => BusyUntil(c) <= BusyUntil(d)
  /\ now' = BusyUntil(c)
  /\ UNCHANGED <<flvars, rtvars, nzvars, crvars, redis, rlvars, clvars, idle, syvars>>

\* A second passes with nothing going on.
CTick ==
  /\ now < CMaxTime
  /\ idle < MaxIdleTicks
  /\ now' = now + 1
  /\ idle' = idle + 1
  /\ UNCHANGED <<flvars, rtvars, nzvars, crvars, redis, rlvars, clvars, syvars>>

NextClient ==
  \/ \E c \in Clients : CNew(c)
  \/ \E c \in Clients, hs, val \in {"ok", "error"}, sub \in BOOLEAN :
       CAuthenticate(c, hs, val, sub)
  \/ \E c \in Clients, kind \in FetchKinds, up \in UpOutcomes, sub \in BOOLEAN :
       CFetch(c, kind, up, sub)
  \/ \E c \in Clients : CWake(c)
  \/ CTick

SpecClient == InitClient /\ [][NextClient]_vars

\* ------------------------------------------- the rate limiter on its own
InitRL ==
  /\ now = 0
  /\ redis = [k \in RateKeys |-> NoKey]
  /\ rlpc = [i \in Instances |-> "idle"]
  /\ rlargs = [i \in Instances |-> [key |-> RateKey("u1"), current_time |-> 0]]
  /\ rlhist = <<>>
  /\ rl_limit \in 1..MaxLimit
  /\ rl_window \in 1..MaxWindow
  /\ clients = [c \in Clients |-> ClientInit(NoUser)]
  /\ call = [c \in Clients |-> NoCall]
  /\ outcome = NoOutcome
  /\ idle = 0
  /\ SyncInit
  /\ VaultInit(<<>>)
  /\ NormIdle
  /\ FilterIdle
  /\ RouteIdle
  /\ credentials = [u \in Users |-> FALSE]

InFlight == Cardinality({i \in Instances : rlpc[i] = "exec"})

\* current_time = int(time.time())
RLReadClock(i, k) ==
  /\ rlpc[i] = "idle"
  /\ Len(rlhist) + InFlight < MaxCalls
  /\ rlpc' = [rlpc EXCEPT ![i] = "exec"]
  /\ rlargs' = [rlargs EXCEPT ![i] = [key |-> k, current_time |-> now]]
  /\ UNCHANGED <<flvars, rtvars, nzvars, crvars, now, redis, rlhist, rl_limit, rl_window, clvars, idle, syvars>>

\* results = await pipe.execute(); return current_count < limit
RLExecute(i, late) ==
  /\ rlpc[i] = "exec"
  /\ LET a == rlargs[i]
         res == pipeline_execute(redis[a.key], a.current_time, rl_window, now, late)
     IN /\ redis' = [redis EXCEPT ![a.key] = res.entry]
        /\ rlhist' = Append(rlhist, [key |-> a.key, ct |-> a.current_time,
                                     at |-> now, count |-> res.count,
                                     ok |-> Allowed(res.count, rl_limit)])
  /\ rlpc' = [rlpc EXCEPT ![i] = "idle"]
  /\ UNCHANGED <<flvars, rtvars, nzvars, crvars, now, rlargs, rl_limit, rl_window, clvars, idle, syvars>>

RLTick ==
  /\ now < RLMaxTime
  /\ now' = now + 1
  /\ UNCHANGED <<flvars, rtvars, nzvars, crvars, redis, rlvars, clvars, idle, syvars>>

NextRL ==
  \/ \E i \in Instances, k \in RateKeys : RLReadClock(i, k)
  \/ \E i \in Instances, late \in BOOLEAN : RLExecute(i, late)
  \/ RLTick

SpecRL == InitRL /\ [][NextRL]_vars

\* ----------------------------------------------------- POST /sync: steps
Active(q, u) == sync[q].pc \notin {"idle", "done"} /\ sync[q].user_id = u

\* The rows a select on the request's session returns for a key: those
\* committed, and the one the session itself has added (flushed by the query).
MutSelectOwnSession(table, u, key, added) == IF key \in added THEN 1 ELSE 0
SelectRows(table, u, key, added) ==
  table[u][key] + (IF key \in added THEN 1 ELSE 0)

\* The handler has answered: its session is closed, its client dropped.
Answered(q, code) ==
  [SyncIdle EXCEPT !.pc = "done", !.user_id = q.user_id, !.days = q.days,
                   !.rerun = q.rerun, !.status = code,
                   !.prev_activities = q.prev_activities,
                   !.prev_metrics = q.prev_metrics,
                   !.got_activities = q.got_activities,
                   !.got_metrics = q.got_metrics,
                   !.activities_synced = IF code = 200 THEN q.activities_synced ELSE 0,
                   !.health_metrics_synced =
                      IF code = 200 THEN q.health_metrics_synced ELSE 0,
                   !.start_date = q.start_date,
                   !.metric_fetches = q.metric_fetches,
                   !.fetched = q.fetched,
                   !.sync_period_days = IF code = 200 THEN q.days ELSE 0]

Ended(q, code) ==
  [ok |-> code = 200, days |-> q.days, got_activities |-> q.got_activities,
   got_metrics |-> q.got_metrics]

\* The request's state after step q2, or after the answer when the step
\* ended the handler with an HTTP error (rollback: nothing of it is kept).
Finish(p, q, code) ==
  /\ sync' = [sync EXCEPT ![p] = Answered(q, code)]
  /\ last' = [last EXCEPT ![q.user_id] = Ended(q, code)]

\* for i in range(min(days, 30)): the step after metric k of day i
MutAfterMetricNoClamp(q) ==
  IF q.k < Len(MetricOrder) THEN [q EXCEPT !.k = q.k + 1]
  ELSE IF q.i + 1 < q.days THEN [q EXCEPT !.i = q.i + 1, !.k = 1]
  ELSE [q EXCEPT !.pc = "commit"]
AfterMetric(q) ==
  IF q.k < Len(MetricOrder) THEN [q EXCEPT !.k = q.k + 1]
  ELSE IF q.i + 1 < Min(q.days, DAYS_CAP) THEN [q EXCEPT !.i = q.i + 1, !.k = 1]
  ELSE [q EXCEPT !.pc = "commit"]

\* the step after the activities loop
AfterActivities(q) ==
  IF Min(q.days, DAYS_CAP) > 0 THEN [q EXCEPT !.pc = "metrics", !.i = 0, !.k = 1]
  ELSE [q EXCEPT !.pc = "commit"]

SyncBusyUntil(p) == Max(sync[p].client.last_request_time, sync[p].resumeAt)
SyncSubChoices(p) ==
  IF now - sync[p].client.last_request_time = MIN_REQUEST_INTERVAL
  THEN BOOLEAN ELSE {FALSE}

\* No upstream call fails in the step, or one more does
Failing(well) ==
  IF well THEN faults' = faults
  ELSE faults < MaxFaults /\ faults' = faults + 1

\* POST /sync?user_id=u&days=d up to the construction of the client
MutSyncStartNoLookup(p, u, d) ==
  /\ sync[p].pc \in {"idle", "done"}
  /\ nsyncs < MaxSyncs
  /\ nsyncs' = nsyncs + 1
  /\ sync' = [sync EXCEPT ![p] =
       [SyncIdle EXCEPT !.user_id = u, !.days = d, !.pc = "authenticate",
                        !.client = ClientInit(u)]]
  /\ UNCHANGED <<flvars, rtvars, nzvars, crvars, now, redis, rlvars, clvars, idle, garmin_activities,
                 garmin_health_metrics, activity_raw_data, metric_data,
                 credentials, faults, last>>
SyncStart(p, u, d) ==
  /\ sync[p].pc \in {"idle", "done"}
  /\ nsyncs < MaxSyncs
  /\ nsyncs' = nsyncs + 1
  /\ LET q == [SyncIdle EXCEPT !.user_id = u, !.days = d]
         again == /\ last[u].ok
                  /\ last[u].days = d
                  /\ \A o \in Procs : ~Active(o, u)
     IN IF ~credentials[u]
        THEN Finish(p, q, 404)
        ELSE /\ sync' = [r \in Procs |->
                  IF r = p
                  THEN [q EXCEPT !.pc = "authenticate", !.client = ClientInit(u),
                          !.rerun = again,
                          !.prev_activities =
                             IF again THEN last[u].got_activities ELSE {},
                          !.prev_metrics =
                             IF again THEN last[u].got_metrics ELSE {}]
                  ELSE IF Active(r, u) THEN [sync[r] EXCEPT !.rerun = FALSE]
                  ELSE sync[r]]
             /\ UNCHANGED last
  /\ UNCHANGED <<flvars, rtvars, nzvars, crvars, now, redis, rlvars, clvars, idle, garmin_activities,
                 garmin_health_metrics, activity_raw_data, metric_data,
                 credentials, faults>>

\* if not await client.authenticate(...): raise HTTPException(401)
MutSyncAuthResultIgnored(p, hs, val, sub) ==
  /\ sync[p].pc = "authenticate"
  /\ sub \in SyncSubChoices(p)
  /\ LET q == sync[p]
         a == authenticate(q.client, redis, now, sub, hs, val)
     IN /\ redis' = a.redis
        /\ Failing(a.calls = 0 \/ (hs = "ok" /\ val = "ok"))
        /\ sync' = [sync EXCEPT ![p] =
             [q EXCEPT !.pc = "get_activities", !.client = a.client,
                       !.start_date = 0 - q.days]]
  /\ UNCHANGED <<flvars, rtvars, nzvars, crvars, now, rlvars, clvars, idle, garmin_activities,
                 garmin_health_metrics, activity_raw_data, metric_data,
                 credentials, nsyncs, last>>
SyncAuthenticate(p, hs, val, sub) ==
  /\ sync[p].pc = "authenticate"
  /\ sub \in SyncSubChoices(p)
  /\ LET q == sync[p]
         a == authenticate(q.client, redis, now, sub, hs, val)
     IN /\ redis' = a.redis
        /\ Failing(a.calls = 0 \/ (hs = "ok" /\ val = "ok"))
        /\ IF a.ret = "True"
           THEN /\ sync' = [sync EXCEPT ![p] =
                     [q EXCEPT !.pc = "get_activities", !.client = a.client,
                               !.start_date = 0 - q.days]]
                /\ UNCHANGED last
           ELSE Finish(p, q, 401)
  /\ UNCHANGED <<flvars, rtvars, nzvars, crvars, now, rlvars, clvars, idle, garmin_activities,
                 garmin_health_metrics, activity_raw_data, metric_data,
                 credentials, nsyncs>>

\* raw_activities = await client.get_activities(start_date): one attempt
SyncGetActivities(p, up, data, sub) ==
  /\ sync[p].pc = "get_activities"
  /\ now >= SyncBusyUntil(p)
  /\ sub \in SyncSubChoices(p)
  /\ data \in (IF up = "ok" THEN SUBSET ActivityIds ELSE {{}})
  /\ LET q == sync[p]
         a == fetch_attempt(q.client, redis, now, sub, "activities", up)
         d == RetryDecision(a.ret, q.attempt + 1)
         q1 == [q EXCEPT !.client = a.client]
     IN /\ redis' = a.redis
        /\ Failing(a.calls = 0 \/ up = "ok")
        /\ IF d = "retry"
           THEN /\ sync' = [sync EXCEPT ![p] =
                     [q1 EXCEPT !.attempt = q.attempt + 1,
                                !.resumeAt = Max(now, a.client.last_request_time)
                                               + RetryWait(q.attempt + 1)]]
                /\ UNCHANGED last
           ELSE IF d = "data"
           THEN /\ sync' = [sync EXCEPT ![p] =
                     IF data = {}
                     THEN AfterActivities(q1)
                     ELSE [q1 EXCEPT !.pc = "activities", !.acts = data,
                                     !.got_activities = data]]
                /\ UNCHANGED last
           ELSE Finish(p, q, 500)
  /\ UNCHANGED <<flvars, rtvars, nzvars, crvars, now, rlvars, clvars, idle, garmin_activities,
                 garmin_health_metrics, activity_raw_data, metric_data,
                 credentials, nsyncs>>

\* One round of the activities loop: select, scalar_one_or_none, db.add
MutSyncActivityAutocommit(p, aid) ==
  /\ sync[p].pc = "activities"
  /\ aid \in sync[p].acts
  /\ LET q == sync[p]
         n == SelectRows(garmin_activities, q.user_id, aid, q.new_activities)
         q1 == [q EXCEPT !.acts = @ \ {aid}]
         q2 == IF n = 0 /\ aid # ""
               THEN [q1 EXCEPT !.activities_synced = @ + 1]
               ELSE q1
     IN /\ IF n > 1
           THEN Finish(p, q, 500)
           ELSE /\ sync' = [sync EXCEPT ![p] =
                     IF q2.acts = {} THEN AfterActivities(q2) ELSE q2]
                /\ UNCHANGED last
        /\ garmin_activities' =
             IF n = 0 /\ aid # ""
             THEN [garmin_activities EXCEPT ![q.user_id][aid] = @ + 1]
             ELSE garmin_activities
        /\ activity_raw_data' =
             IF n = 0 /\ aid # ""
             THEN [activity_raw_data EXCEPT ![q.user_id][aid] = @ \cup {p}]
             ELSE activity_raw_data
  /\ UNCHANGED <<flvars, rtvars, nzvars, crvars, now, redis, rlvars, clvars, idle, garmin_health_metrics,
                 metric_data, credentials, nsyncs, faults>>
SyncActivity(p, aid) ==
  /\ sync[p].pc = "activities"
  /\ aid \in sync[p].acts
  /\ LET q == sync[p]
         n == SelectRows(garmin_activities, q.user_id, aid, q.new_activities)
         q1 == [q EXCEPT !.acts = @ \ {aid}]
         q2 == IF n = 0 /\ aid # ""
               THEN [q1 EXCEPT !.new_activities = @ \cup {aid},
                               !.activities_synced = @ + 1]
               ELSE q1
     IN IF n > 1
        THEN Finish(p, q, 500)   \* MultipleResultsFound
        ELSE /\ sync' = [sync EXCEPT ![p] =
                  IF q2.acts = {} THEN AfterActivities(q2) ELSE q2]
             /\ UNCHANGED last
  /\ UNCHANGED <<flvars, rtvars, nzvars, crvars, now, redis, rlvars, clvars, idle, garmin_activities,
                 garmin_health_metrics, activity_raw_data, metric_data,
                 credentials, nsyncs, faults>>

\* One metric of one day: fetch, and if there is data select,
\* scalar_one_or_none, db.add
SyncMetric(p, up, sub) ==
  /\ sync[p].pc = "metrics"
  /\ now >= SyncBusyUntil(p)
  /\ sub \in SyncSubChoices(p)
  /\ LET q == sync[p]
         key == <<MetricOrder[q.k], q.i>>
         a == fetch_attempt(q.client, redis, now, sub, key[1], up)
         n == SelectRows(garmin_health_metrics, q.user_id, key, q.new_metrics)
         q1 == [q EXCEPT !.client = a.client, !.metric_fetches = @ + 1,
                         !.fetched = @ \cup {key}]
         q2 == IF a.ret = "data"
               THEN [q1 EXCEPT !.got_metrics = @ \cup {key},
                       !.new_metrics = IF n = 0 THEN @ \cup {key} ELSE @,
                       !.health_metrics_synced = IF n = 0 THEN @ + 1 ELSE @]
               ELSE q1
     IN /\ redis' = a.redis
        /\ Failing(a.calls = 0 \/ up = "ok")
        /\ IF a.ret \notin {"data", "None"} \/ (a.ret = "data" /\ n > 1)
           THEN Finish(p, q, 500)
           ELSE /\ sync' = [sync EXCEPT ![p] = AfterMetric(q2)]
                /\ UNCHANGED last
  /\ UNCHANGED <<flvars, rtvars, nzvars, crvars, now, rlvars, clvars, idle, garmin_activities,
                 garmin_health_metrics, activity_raw_data, metric_data,
                 credentials, nsyncs>>

\* await db.commit(); return SyncResponse(...)
\* A row's raw_data or metric_data is what upstream returned to the request
\* that added the row; each request is handed a version of its own, named
\* after the request.
MutSyncCommitUpsert(p) ==
  /\ sync[p].pc = "commit"
  /\ LET q == sync[p]
     IN /\ garmin_activities' = [garmin_activities EXCEPT ![q.user_id] =
             [a \in ActivityIds |-> @[a] + IF a \in q.new_activities THEN 1 ELSE 0]]
        /\ garmin_health_metrics' = [garmin_health_metrics EXCEPT ![q.user_id] =
             [m \in MetricKeys |-> @[m] + IF m \in q.new_metrics THEN 1 ELSE 0]]
        /\ activity_raw_data' = [activity_raw_data EXCEPT ![q.user_id] =
             [a \in ActivityIds |-> IF a \in q.got_activities THEN {p} ELSE @[a]]]
        /\ metric_data' = [metric_data EXCEPT ![q.user_id] =
             [m \in MetricKeys |-> IF m \in q.got_metrics THEN {p} ELSE @[m]]]
        /\ Finish(p, q, 200)
  /\ UNCHANGED <<flvars, rtvars, nzvars, crvars, now, redis, rlvars, clvars, idle, credentials, nsyncs, faults>>
SyncCommit(p) ==
  /\ sync[p].pc = "commit"
  /\ LET q == sync[p]
     IN /\ garmin_activities' = [garmin_activities EXCEPT ![q.user_id] =
             [a \in ActivityIds |-> @[a] + IF a \in q.new_activities THEN 1 ELSE 0]]
        /\ garmin_health_metrics' = [garmin_health_metrics EXCEPT ![q.user_id] =
             [m \in MetricKeys |-> @[m] + IF m \in q.new_metrics THEN 1 ELSE 0]]
        /\ activity_raw_data' = [activity_raw_data EXCEPT ![q.user_id] =
             [a \in ActivityIds |-> @[a] \cup IF a \in q.new_activities THEN {p} ELSE {}]]
        /\ metric_data' = [metric_data EXCEPT ![q.user_id] =
             [m \in MetricKeys |-> @[m] \cup IF m \in q.new_metrics THEN {p} ELSE {}]]
        /\ Finish(p, q, 200)
  /\ UNCHANGED <<flvars, rtvars, nzvars, crvars, now, redis, rlvars, clvars, idle, credentials, nsyncs, faults>>

\* A sleeping handler wakes: the clock reaches the second it sleeps until.
SyncWake(p) ==
  /\ sync[p].pc \in {"get_activities", "metrics"}
  /\ now < SyncBusyUntil(p)
  /\ SyncBusyUntil(p) <= SMaxTime
  /\ \A o \in Procs : now < SyncBusyUntil(o) => SyncBusyUntil(p) <= SyncBusyUntil(o)
  /\ now' = SyncBusyUntil(p)
  /\ UNCHANGED <<flvars, rtvars, nzvars, crvars, redis, rlvars, clvars, idle, syvars>>

\* Empty tables; u1 has stored credentials, u2 has none; u1's key is empty or
\* holds a call in each of the 58 seconds before the run.
Init ==
  /\ now = T0
  /\ redis \in {[k \in RateKeys |-> NoKey],
                [k \in RateKeys |->
                   IF k = RateKey("u1") THEN BusyKey(T0 - 1) ELSE NoKey]}
  /\ rlpc = [i \in Instances |-> "idle"]
  /\ rlargs = [i \in Instances |-> [key |-> RateKey("u1"), current_time |-> 0]]
  /\ rlhist = <<>>
  /\ rl_limit = RATE_LIMIT
  /\ rl_window = RATE_WINDOW
  /\ clients = [c \in Clients |-> ClientInit(NoUser)]
  /\ call = [c \in Clients |-> NoCall]
  /\ outcome = NoOutcome
  /\ idle = 0
  /\ SyncInit
  /\ VaultInit(<<"u1">>)
  /\ NormIdle
  /\ FilterIdle
  /\ RouteIdle
  /\ credentials = [u \in Users |-> u = "u1"]

Next ==
  \/ \E p \in Procs, u \in Users, d \in 1..MaxDays : SyncStart(p, u, d)
  \/ \E p \in Procs, hs, val \in {"ok", "error"}, sub \in BOOLEAN :
       SyncAuthenticate(p, hs, val, sub)
  \/ \E p \in Procs, up \in UpOutcomes, data \in SUBSET ActivityIds,
        sub \in BOOLEAN : SyncGetActivities(p, up, data, sub)
  \/ \E p \in Procs, aid \in ActivityIds : SyncActivity(p, aid)
  \/ \E p \in Procs, up \in UpOutcomes, sub \in BOOLEAN : SyncMetric(p, up, sub)
  \/ \E p \in Procs : SyncCommit(p)
  \/ \E p \in Procs : SyncWake(p)

Spec == Init /\ [][Next]_vars

\* ------------------------------------------- one sync over a long window
\* The days asked for: none, one, the cap of the metrics loop, more than it
WindowDays == {0, 1, DAYS_CAP, DAYS_CAP + 1}

\* One request will be served, for u1, whose key is empty; upstream may fail
\* every metric fetch of the window.
InitWindow ==
  /\ now = T0
  /\ redis = [k \in RateKeys |-> NoKey]
  /\ rlpc = [i \in Instances |-> "idle"]
  /\ rlargs = [i \in Instances |-> [key |-> RateKey("u1"), current_time |-> 0]]
  /\ rlhist = <<>>
  /\ rl_limit = RATE_LIMIT
  /\ rl_window = RATE_WINDOW
  /\ clients = [c \in Clients |-> ClientInit(NoUser)]
  /\ call = [c \in Clients |-> NoCall]
  /\ outcome = NoOutcome
  /\ idle = 0
  /\ sync = [p \in Procs |-> SyncIdle]
  /\ garmin_activities = [u \in Users |-> [a \in ActivityIds |-> 0]]
  /\ garmin_health_metrics = [u \in Users |-> [m \in MetricKeys |-> 0]]
  /\ activity_raw_data = [u \in Users |-> [a \in ActivityIds |-> {}]]
  /\ metric_data = [u \in Users |-> [m \in MetricKeys |-> {}]]
  /\ last = [u \in Users |-> NoSync]
  /\ credentials = [u \in Users |-> u = "u1"]
  /\ nsyncs = MaxSyncs - 1
  /\ faults = 0 - Len(MetricOrder) * (DAYS_CAP + 1)
  /\ VaultInit(<<"u1">>)
  /\ NormIdle
  /\ FilterIdle
  /\ RouteIdle

\* A sleeping handler wakes, however long the run has lasted.
WindowWake(p) ==
  /\ sync[p].pc \in {"get_activities", "metrics"}
  /\ now < SyncBusyUntil(p)
  /\ now' = SyncBusyUntil(p)
  /\ UNCHANGED <<flvars, rtvars, nzvars, crvars, redis, rlvars, clvars, idle, syvars>>

NextWindow ==
  \/ \E p \in Procs, d \in WindowDays : SyncStart(p, "u1", d)
  \/ \E p \in Procs, sub \in BOOLEAN : SyncAuthenticate(p, "ok", "ok", sub)
  \/ \E p \in Procs, data \in SUBSET ActivityIds, sub \in BOOLEAN :
       SyncGetActivities(p, "ok", data, sub)
  \/ \E p \in Procs, aid \in ActivityIds : SyncActivity(p, aid)
  \/ \E p \in Procs, up \in {"conn", "other"}, sub \in BOOLEAN :
       SyncMetric(p, up, sub)
  \/ \E p \in Procs : SyncCommit(p)
  \/ \E p \in Procs : WindowWake(p)

SpecWindow == InitWindow /\ [][NextWindow]_vars

\* ---------------------------------------------------- the cipher on its own
\* Nothing but the vault is in use: no request, no client call, an empty store.
Elsewhere ==
  /\ now = T0
  /\ redis = [k \in RateKeys |-> NoKey]
  /\ rlpc = [i \in Instances |-> "idle"]
  /\ rlargs = [i \in Instances |-> [key |-> RateKey("u1"), current_time |-> 0]]
  /\ rlhist = <<>>
  /\ rl_limit = RATE_LIMIT
  /\ rl_window = RATE_WINDOW
  /\ clients = [c \in Clients |-> ClientInit(NoUser)]
  /\ call = [c \in Clients |-> NoCall]
  /\ outcome = NoOutcome
  /\ idle = 0
  /\ SyncInit

InitCrypt ==
  /\ Elsewhere
  /\ VaultInit(<<>>)
  /\ NormIdle
  /\ FilterIdle
  /\ RouteIdle
  /\ credentials = [u \in Users |-> FALSE]

\* What a call of encrypt_credential that returned adds to the cipher's history
Issued(credential, r) ==
  [credential |-> credential, encrypted_data |-> r.encrypted_data,
   salt |-> r.salt]

\* encrypt_credential(credential)
Encrypt(credential) ==
  /\ entropy < 2 * MaxEncrypts
  /\ LET r == encrypt_credential(credential, token_bytes(entropy),
                                 token_bytes(entropy + 1))
     IN /\ entropy' = entropy + r.draws
        /\ issued' = IF r.ret = "ok" THEN Append(issued, Issued(credential, r))
                     ELSE issued
        /\ crypt' = [NoCrypt EXCEPT !.op = "encrypt", !.ret = r.ret,
                                    !.value = credential]
  /\ UNCHANGED <<flvars, rtvars, nzvars, now, redis, rlvars, clvars, idle, syvars, user_credentials,
                 cred, vault, ncreds>>

\* decrypt_credential(encrypted_data, salt): encrypted_data is a text for the
\* token of the i-th encryption, as made or altered, salt a text for the salt
\* of the j-th.
Decrypt(i, j, data_form, salt_form, tampered) ==
  /\ i \in 1..Len(issued) /\ j \in 1..Len(issued)
  /\ LET token == B64Decode(issued[i].encrypted_data)
         encrypted_data == [b64 |-> IF tampered THEN Tampered(token) ELSE token,
                            form |-> data_form]
         salt == [b64 |-> B64Decode(issued[j].salt), form |-> salt_form]
         r == decrypt_credential(encrypted_data, salt)
     IN crypt' = [op |-> "decrypt", of |-> i, with |-> j,
                  data_form |-> data_form, salt_form |-> salt_form,
                  tampered |-> tampered, ret |-> r.ret, value |-> r.value]
  /\ UNCHANGED <<flvars, rtvars, nzvars, now, redis, rlvars, clvars, idle, syvars, user_credentials,
                 cred, vault, ncreds, issued, entropy>>

NextCrypt ==
  \/ \E credential \in Plaintexts : Encrypt(credential)
  \/ \E i, j \in 1..MaxEncrypts, data_form, salt_form \in TextForms,
        tampered \in BOOLEAN : Decrypt(i, j, data_form, salt_form, tampered)

SpecCrypt == InitCrypt /\ [][NextCrypt]_vars

\* ------------------------------------------- the credentials endpoints
\* where(user_id == u, service == 'garmin'), and with is_active == True
RowsOf(rows, u) == {i \in 1..Len(rows) : rows[i].user_id = u}
ActiveRowsOf(rows, u) == {i \in RowsOf(rows, u) : rows[i].is_active}

\* What the sync handler's lookup finds: credentials[u] for every user
Stored(rows) == [u \in Users |-> ActiveRowsOf(rows, u) # {}]

\* test_credentials: authenticate on a client made for the purpose; raised
\* stands for an exception inside the try block.
MutTestCredentialsAsUser(r, t, hs, val, raised) ==
  LET a == authenticate(ClientInit("u1"), r, t, FALSE, hs, val)
  IN IF raised THEN [ret |-> "False", redis |-> r]
     ELSE [ret |-> a.ret, redis |-> a.redis]
MutTestCredentialsPropagates(r, t, hs, val, raised) ==
  LET a == authenticate(ClientInit(NoUser), r, t, FALSE, hs, val)
  IN IF raised THEN [ret |-> "Exception", redis |-> r]
     ELSE [ret |-> a.ret, redis |-> a.redis]
test_credentials(r, t, hs, val, raised) ==
  LET a == authenticate(ClientInit(NoUser), r, t, FALSE, hs, val)
  IN IF raised THEN [ret |-> "False", redis |-> r]
     ELSE [ret |-> a.ret, redis |-> a.redis]

\* get_credentials: scalar_one_or_none over the active rows, then both fields
\* decrypted
MutGetCredentialsAnyRow(rows, u) ==
  LET act == RowsOf(rows, u)
      none == [ret |-> "None", username |-> "", password |-> ""]
  IN IF act = {} THEN none
     ELSE IF Cardinality(act) > 1
     THEN [none EXCEPT !.ret = "MultipleResultsFound"]
     ELSE LET row == rows[CHOOSE i \in act : TRUE]
              pw == decrypt_credential(row.encrypted_data, row.salt)
              un == decrypt_credential(row.metadata_.username_encrypted,
                                       row.metadata_.username_salt)
          IN IF pw.ret # "ok" THEN [none EXCEPT !.ret = pw.ret]
             ELSE IF un.ret # "ok" THEN [none EXCEPT !.ret = un.ret]
             ELSE [ret |-> "ok", username |-> un.value, password |-> pw.value]
get_credentials(rows, u) ==
  LET act == ActiveRowsOf(rows, u)
      none == [ret |-> "None", username |-> "", password |-> ""]
  IN IF act = {} THEN none
     ELSE IF Cardinality(act) > 1
     THEN [none EXCEPT !.ret = "MultipleResultsFound"]
     ELSE LET row == rows[CHOOSE i \in act : TRUE]
              pw == decrypt_credential(row.encrypted_data, row.salt)
              un == decrypt_credential(row.metadata_.username_encrypted,
                                       row.metadata_.username_salt)
          IN IF pw.ret # "ok" THEN [none EXCEPT !.ret = pw.ret]
             ELSE IF un.ret # "ok" THEN [none EXCEPT !.ret = un.ret]
             ELSE [ret |-> "ok", username |-> un.value, password |-> pw.value]

\* delete_credentials: update ... values(is_active=False); rowcount > 0
MutDeleteReportsActive(rows, u) ==
  [rows |-> [i \in 1..Len(rows) |->
               IF i \in RowsOf(rows, u) THEN [rows[i] EXCEPT !.is_active = FALSE]
               ELSE rows[i]],
   ret |-> IF ActiveRowsOf(rows, u) # {} THEN "True" ELSE "False",
   deactivated |-> Cardinality(ActiveRowsOf(rows, u))]
delete_credentials(rows, u) ==
  [rows |-> [i \in 1..Len(rows) |->
               IF i \in RowsOf(rows, u) THEN [rows[i] EXCEPT !.is_active = FALSE]
               ELSE rows[i]],
   ret |-> IF RowsOf(rows, u) # {} THEN "True" ELSE "False",
   deactivated |-> Cardinality(ActiveRowsOf(rows, u))]

\* store_credentials from 'if existing' on: the update of the user's rows, or
\* the insert of a new one
store_write(rows, u, existing, eu, ep) ==
  IF existing
  THEN [i \in 1..Len(rows) |->
          IF i \in RowsOf(rows, u) THEN UserCredential(u, eu, ep) ELSE rows[i]]
  ELSE Append(rows, UserCredential(u, eu, ep))

\* The handler has answered
CredAnswered(q, code, ret) == [q EXCEPT !.pc = "done", !.status = code, !.ret = ret]

\* POST /credentials up to the call of store_credentials: the live validation
MutStoreValidateIgnored(p, u, username, password, hs, val, raised) ==
  /\ cred[p].pc \in {"idle", "done"}
  /\ ncreds < MaxCreds
  /\ ncreds' = ncreds + 1
  /\ LET q == [CredIdle EXCEPT !.op = "store", !.user_id = u,
                               !.username = username, !.password = password,
                               !.raised = raised]
         v == test_credentials(redis, now, hs, val, raised)
     IN /\ redis' = v.redis
        /\ cred' = [cred EXCEPT ![p] = [q EXCEPT !.pc = "lookup", !.ret = v.ret]]
  /\ UNCHANGED <<flvars, rtvars, nzvars, now, rlvars, clvars, idle, syvars, user_credentials, vault,
                 issued, entropy, crypt>>
StoreValidate(p, u, username, password, hs, val, raised) ==
  /\ cred[p].pc \in {"idle", "done"}
  /\ ncreds < MaxCreds
  /\ ncreds' = ncreds + 1
  /\ LET q == [CredIdle EXCEPT !.op = "store", !.user_id = u,
                               !.username = username, !.password = password,
                               !.raised = raised]
         v == test_credentials(redis, now, hs, val, raised)
     IN /\ redis' = v.redis
        /\ cred' = [cred EXCEPT ![p] =
             IF v.ret = "True" THEN [q EXCEPT !.pc = "lookup", !.ret = v.ret]
             ELSE IF v.ret = "False" THEN CredAnswered(q, 401, v.ret)
             ELSE CredAnswered(q, 500, v.ret)]
  /\ UNCHANGED <<flvars, rtvars, nzvars, now, rlvars, clvars, idle, syvars, user_credentials, vault,
                 issued, entropy, crypt>>

\* store_credentials up to scalar_one_or_none: both fields encrypted, the
\* user's rows selected
StoreLookup(p) ==
  /\ cred[p].pc = "lookup"
  /\ LET q == cred[p]
         eu == encrypt_credential(q.username, token_bytes(entropy),
                                  token_bytes(entropy + 1))
         ep == encrypt_credential(q.password, token_bytes(entropy + 2),
                                  token_bytes(entropy + 3))
         n == Cardinality(RowsOf(user_credentials, q.user_id))
     IN /\ entropy' = entropy + eu.draws + ep.draws
        /\ issued' = issued \o <<Issued(q.username, eu), Issued(q.password, ep)>>
        /\ cred' = [cred EXCEPT ![p] =
             IF n > 1
             THEN CredAnswered(q, 500, "MultipleResultsFound")
             ELSE [q EXCEPT !.pc = "write", !.existing = n = 1,
                            !.encrypted_username = eu,
                            !.encrypted_password = ep]]
  /\ UNCHANGED <<flvars, rtvars, nzvars, now, redis, rlvars, clvars, idle, syvars, user_credentials,
                 vault, ncreds, crypt>>

\* store_credentials from 'if existing' to the commit, and the answer
StoreWrite(p) ==
  /\ cred[p].pc = "write"
  /\ LET q == cred[p]
     IN /\ user_credentials' =
             store_write(user_credentials, q.user_id, q.existing,
                         q.encrypted_username, q.encrypted_password)
        /\ vault' = [vault EXCEPT ![q.user_id] =
             [op |-> "store", username |-> q.username, password |-> q.password]]
        /\ cred' = [cred EXCEPT ![p] = CredAnswered(q, 200, "True")]
  /\ credentials' = Stored(user_credentials')
  /\ UNCHANGED <<flvars, rtvars, nzvars, now, redis, rlvars, clvars, idle, sync, garmin_activities,
                 garmin_health_metrics, activity_raw_data, metric_data, last,
                 nsyncs, faults, ncreds, issued, entropy, crypt>>

\* DELETE /credentials
Revoke(p, u) ==
  /\ cred[p].pc \in {"idle", "done"}
  /\ ncreds < MaxCreds
  /\ ncreds' = ncreds + 1
  /\ LET d == delete_credentials(user_credentials, u)
     IN /\ user_credentials' = d.rows
        /\ vault' = [vault EXCEPT ![u] = [NoOp EXCEPT !.op = "revoke"]]
        /\ cred' = [cred EXCEPT ![p] =
             [CredAnswered([CredIdle EXCEPT !.op = "revoke", !.user_id = u],
                           200, d.ret)
                EXCEPT !.deactivated = d.deactivated]]
  /\ credentials' = Stored(user_credentials')
  /\ UNCHANGED <<flvars, rtvars, nzvars, now, redis, rlvars, clvars, idle, sync, garmin_activities,
                 garmin_health_metrics, activity_raw_data, metric_data, last,
                 nsyncs, faults, issued, entropy, crypt>>

\* get_credentials(db, user_id) by a caller of the service
Retrieve(p, u) ==
  /\ cred[p].pc \in {"idle", "done"}
  /\ LET g == get_credentials(user_credentials, u)
     IN cred' = [cred EXCEPT ![p] =
          [CredIdle EXCEPT !.pc = "done", !.op = "retrieve", !.user_id = u,
                           !.ret = g.ret, !.username = g.username,
                           !.password = g.password]]
  /\ UNCHANGED <<flvars, rtvars, nzvars, now, redis, rlvars, clvars, idle, syvars, user_credentials,
                 vault, ncreds, issued, entropy, crypt>>

\* POST /sync up to the construction of the client, the credentials being
\* looked up in the table: several active rows make scalar_one_or_none raise,
\* which the handler answers with 500.
LookupSyncStart(p, u, d) ==
  IF Cardinality(ActiveRowsOf(user_credentials, u)) > 1
  THEN /\ sync[p].pc \in {"idle", "done"}
       /\ nsyncs < MaxSyncs
       /\ nsyncs' = nsyncs + 1
       /\ Finish(p, [SyncIdle EXCEPT !.user_id = u, !.days = d], 500)
       /\ UNCHANGED <<flvars, rtvars, nzvars, now, redis, rlvars, clvars, idle, garmin_activities,
                      garmin_health_metrics, activity_raw_data, metric_data,
                      credentials, faults, crvars>>
  ELSE SyncStart(p, u, d)

\* The user whose credentials the requests are about; the other user's stay
\* as stored before the run.
VaultUsers == {"u1"}

InitCred ==
  /\ Elsewhere
  /\ VaultInit(<<"u2">>)
  /\ NormIdle
  /\ FilterIdle
  /\ RouteIdle
  /\ credentials = Stored(Seeded(<<"u2">>).rows)

NextCred ==
  \/ \E p \in Procs, u \in VaultUsers, username \in Usernames,
        password \in Passwords, hs, val \in {"ok", "error"}, raised \in BOOLEAN :
       StoreValidate(p, u, username, password, hs, val, raised)
  \/ \E p \in Procs : StoreLookup(p)
  \/ \E p \in Procs : StoreWrite(p)
  \/ \E p \in Procs, u \in VaultUsers : Revoke(p, u)
  \/ \E p \in Procs, u \in VaultUsers : Retrieve(p, u)
  \/ \E p \in Procs, u \in VaultUsers : LookupSyncStart(p, u, MaxDays)

SpecCred == InitCred /\ [][NextCred]_vars

\* ------------------------------------------------ the normalizer on its own
\* What a raw activity may be: a dict with at most MaxKeys of the keys
\* present, or None
RawActivities ==
  {PyNone} \cup
  UNION {{Dict(K, vals) : vals \in {f \in [K -> UNION {SourcesOf(key) : key \in K}] :
                                       \A key \in K : f[key] \in SourcesOf(key)}} :
         K \in {K \in SUBSET ActivityKeys : Cardinality(K) <= MaxKeys}}

InitNorm ==
  /\ Elsewhere
  /\ VaultInit(<<>>)
  /\ credentials = [u \in Users |-> FALSE]
  /\ raw_activity \in RawActivities
  /\ normalized = NotNormalized
  /\ raw_metric = NoMetric
  /\ normalized_metric = NotNormalizedMetric("heart_rate")
  /\ raw_activities = <<>>
  /\ normalized_activities = NoBatch
  /\ FilterIdle
  /\ RouteIdle

\* normalized = GarminDataNormalizer.normalize_activity(raw_activity)
Normalize ==
  /\ normalized.ret = "none"
  /\ normalized' = normalize_activity(raw_activity)
  /\ UNCHANGED <<flvars, rtvars, now, redis, rlvars, clvars, idle, syvars, crvars, raw_activity,
                 raw_metric, normalized_metric, raw_activities,
                 normalized_activities>>

NextNorm == Normalize

SpecNorm == InitNorm /\ [][NextNorm]_vars

\* ------------------------------------------ the metric normalizers on their own
\* What a metric payload may be: a dict with at most MaxKeys of the kind's
\* keys present, or None; a sleepLevels list has at most MaxLevels entries.
MetricPayloads(kind) ==
  UNION {{MetricDict(kind, K, vals) :
            vals \in {f \in [K -> UNION {MetricSourcesOf(key) : key \in K}] :
                        \A key \in K : f[key] \in MetricSourcesOf(key)}} :
         K \in {K \in SUBSET InputKeys(kind) : Cardinality(K) <= MaxKeys}}
LevelLists == UNION {[1..n -> LevelSources] : n \in 0..MaxLevels}

InitMetric ==
  /\ Elsewhere
  /\ VaultInit(<<>>)
  /\ credentials = [u \in Users |-> FALSE]
  /\ raw_activity = Dict({}, <<>>)
  /\ normalized = NotNormalized
  /\ \E kind \in MetricKinds, target_date \in 0..MaxDays :
       /\ \/ \E data \in MetricPayloads(kind), levels \in LevelLists :
               /\ levels # <<>> => kind = "sleep" /\ data["sleepLevels"] = PyList("levels")
               /\ raw_metric = [kind |-> kind, data |-> data, levels |-> levels,
                                target_date |-> target_date]
          \/ raw_metric = [kind |-> kind, data |-> PyNone, levels |-> <<>>,
                           target_date |-> target_date]
       /\ normalized_metric = NotNormalizedMetric(kind)
  /\ raw_activities = <<>>
  /\ normalized_activities = NoBatch
  /\ FilterIdle
  /\ RouteIdle

\* normalized = GarminDataNormalizer.normalize_<kind>(raw, target_date)
NormalizeMetric ==
  /\ normalized_metric.ret = "none"
  /\ normalized_metric' =
       normalize_metric(raw_metric.kind, raw_metric.data, raw_metric.levels,
                        raw_metric.target_date)
  /\ UNCHANGED <<flvars, rtvars, now, redis, rlvars, clvars, idle, syvars, crvars, raw_activity,
                 normalized, raw_metric, raw_activities, normalized_activities>>

NextMetric == NormalizeMetric

SpecMetric == InitMetric /\ [][NextMetric]_vars

\* ------------------------------------------------- the batch on its own
\* The items of a batch: None, or a dict with or without an activityId and
\* with nothing else, a fine start time, or a value that makes
\* normalize_activity raise
WithId ==
  {Dict({}, <<>>)} \cup
  {Dict({"activityId"}, [key \in {"activityId"} |-> v]) : v \in IdSources}
BatchItems ==
  {PyNone} \cup
  UNION {{d, [d EXCEPT !["startTimeLocal"] = PyStr(IsoZ)],
          [d EXCEPT !["activityType"] = PyStr("running")],
          [d EXCEPT !["duration"] = NaN]} : d \in WithId}

InitBatch ==
  /\ Elsewhere
  /\ VaultInit(<<>>)
  /\ credentials = [u \in Users |-> FALSE]
  /\ raw_activity = Dict({}, <<>>)
  /\ normalized = NotNormalized
  /\ raw_metric = NoMetric
  /\ normalized_metric = NotNormalizedMetric("heart_rate")
  /\ raw_activities \in UNION {[1..n -> BatchItems] : n \in 0..MaxItems}
  /\ normalized_activities = NoBatch
  /\ FilterIdle
  /\ RouteIdle

\* normalized = GarminDataNormalizer.normalize_activities_batch(raw_activities)
NormalizeBatch ==
  /\ normalized_activities.ret = "none"
  /\ normalized_activities' = normalize_activities_batch(raw_activities)
  /\ UNCHANGED <<flvars, rtvars, now, redis, rlvars, clvars, idle, syvars, crvars, raw_activity,
                 normalized, raw_metric, normalized_metric, raw_activities>>

NextBatch == NormalizeBatch

SpecBatch == InitBatch /\ [][NextBatch]_vars

\* ------------------------------------------------- the filter on its own
\* The lists upstream may return: at most MaxItems items, the i-th with
\* activityId i
FilterItem(i, v) ==
  Dict({"activityId", "startTimeLocal"},
       [key \in {"activityId", "startTimeLocal"} |->
          IF key = "activityId" THEN PyInt(i) ELSE v])
UpstreamLists ==
  UNION {{[i \in 1..n |-> FilterItem(i, vs[i])] : vs \in [1..n -> FilterTimeSources]} :
         n \in 0..MaxItems}

InitFilter ==
  /\ Elsewhere
  /\ VaultInit(<<>>)
  /\ credentials = [u \in Users |-> FALSE]
  /\ NormIdle
  /\ RouteIdle
  /\ activities \in UpstreamLists
  /\ start_date \in {PyDatetime(StartNaive), PyDatetime(StartAware)}
  /\ filtered_activities = NoFiltered

\* the loop of get_activities(start_date) once upstream returned activities
FilterActivities ==
  /\ filtered_activities.ret = "none"
  /\ filtered_activities' = filter_activities(activities, start_date)
  /\ UNCHANGED <<now, redis, rlvars, clvars, idle, syvars, crvars, nzvars,
                 rtvars, activities, start_date>>

NextFilter == FilterActivities

SpecFilter == InitFilter /\ [][NextFilter]_vars

\* ------------------------------------------------- the router on its own
\* Requests for the paths under /health, with and without the parameters
HealthPaths ==
  {<<"health">>} \cup
  {<<"health", x>> : x \in ValidMetrics \cup {"summary", "invalid_metric"}}
Requests ==
  [method : {"GET", "POST"}, path : HealthPaths,
   user_id : {{}} \cup {{u} : u \in Users},
   days : {{}, {0}, {1}, {MaxSummaryDays + 1}}]

InitRoute ==
  /\ Elsewhere
  /\ VaultInit(<<>>)
  /\ credentials = [u \in Users |-> FALSE]
  /\ NormIdle
  /\ FilterIdle
  /\ request \in Requests
  /\ response = NoResponse

\* A sync has committed some metric rows of user u1
Synced ==
  /\ response = NoResponse
  /\ \A m \in MetricKeys : garmin_health_metrics["u1"][m] = 0
  /\ \E rows \in [MetricKeys -> 0..1] :
       /\ \E m \in MetricKeys : rows[m] > 0
       /\ garmin_health_metrics' = [garmin_health_metrics EXCEPT !["u1"] = rows]
  /\ UNCHANGED <<now, redis, rlvars, clvars, idle, sync, garmin_activities,
                 activity_raw_data, metric_data, credentials, last, nsyncs,
                 faults, crvars, nzvars, flvars, rtvars>>

\* The router hands the request to the route that matches
Serve ==
  /\ response = NoResponse
  /\ response' = Respond(request, garmin_health_metrics)
  /\ UNCHANGED <<now, redis, rlvars, clvars, idle, syvars, crvars, nzvars,
                 flvars, request>>

NextRoute == Synced \/ Serve

SpecRoute == InitRoute /\ [][NextRoute]_vars

\* ------------------------------------------- _rate_limit_check on its own
\* Each user's key starts empty, two calls short of the limit, or full; the
\* client is bound to a user or to none, and is made anew for another.
InitBudget ==
  /\ now = T0
  /\ redis \in [RateKeys -> {NoKey, BusyKey(T0), FullKey(T0)}]
  /\ rlpc = [i \in Instances |-> "idle"]
  /\ rlargs = [i \in Instances |-> [key |-> RateKey("u1"), current_time |-> 0]]
  /\ rlhist = <<>>
  /\ rl_limit = RATE_LIMIT
  /\ rl_window = RATE_WINDOW
  /\ clients \in [Clients -> {ClientInit(u) : u \in Users \cup {NoUser}}]
  /\ call = [c \in Clients |-> NoCall]
  /\ outcome = NoOutcome
  /\ idle = 0
  /\ SyncInit
  /\ VaultInit(<<>>)
  /\ NormIdle
  /\ FilterIdle
  /\ RouteIdle
  /\ credentials = [u \in Users |-> FALSE]

\* await self._rate_limit_check(); outcome.calls counts the checks made
BCheck(c) ==
  /\ outcome.calls < MaxCalls
  /\ LET rl == rate_limit_check(clients[c], redis, now)
     IN /\ redis' = rl.redis
        /\ outcome' = [client |-> c, op |-> "rate_limit_check",
                       ret |-> IF rl.ok THEN "True" ELSE "False",
                       calls |-> outcome.calls + 1, slept |-> FALSE,
                       attempts |-> 0]
  /\ UNCHANGED <<flvars, rtvars, nzvars, crvars, now, rlvars, clients, call,
                 idle, syvars>>

\* await credential_service.test_credentials(username, password), as the
\* store endpoint calls it
BValidate(hs, val, raised) ==
  /\ outcome.calls < MaxCalls
  /\ LET v == test_credentials(redis, now, hs, val, raised)
     IN /\ redis' = v.redis
        /\ outcome' = [client |-> "none", op |-> "test_credentials",
                       ret |-> v.ret, calls |-> outcome.calls + 1,
                       slept |-> FALSE, attempts |-> 0]
  /\ UNCHANGED <<flvars, rtvars, nzvars, crvars, now, rlvars, clients, call,
                 idle, syvars>>

\* client = GarminClient(user_id=u)
BNew(c, u) ==
  /\ clients[c].user_id # u
  /\ clients' = [clients EXCEPT ![c] = ClientInit(u)]
  /\ UNCHANGED <<flvars, rtvars, nzvars, crvars, now, redis, rlvars, call,
                 outcome, idle, syvars>>

BTick ==
  /\ now < T0 + BMaxTicks
  /\ now' = now + 1
  /\ UNCHANGED <<flvars, rtvars, nzvars, crvars, redis, rlvars, clvars, idle,
                 syvars>>

NextBudget ==
  \/ \E c \in Clients : BCheck(c)
  \/ \E c \in Clients, u \in Users \cup {NoUser} : BNew(c, u)
  \/ \E hs, val \in {"ok", "error"}, raised \in BOOLEAN : BValidate(hs, val, raised)
  \/ BTick

SpecBudget == InitBudget /\ [][NextBudget]_vars

\* --------------------------------- get_activities beside another client
\* One client of u1 authenticates and fetches activities while another
\* client of the same user, in another request, has its calls checked too.
InitRetry ==
  /\ now = T0
  /\ redis \in {[k \in RateKeys |-> NoKey],
                [k \in RateKeys |-> IF k = RateKey("u1") THEN FullKey(T0) ELSE NoKey]}
  /\ rlpc = [i \in Instances |-> "idle"]
  /\ rlargs = [i \in Instances |-> [key |-> RateKey("u1"), current_time |-> 0]]
  /\ rlhist = <<>>
  /\ rl_limit = RATE_LIMIT
  /\ rl_window = RATE_WINDOW
  /\ clients = [c \in Clients |-> ClientInit("u1")]
  /\ call = [c \in Clients |-> NoCall]
  /\ outcome = NoOutcome
  /\ idle = 0
  /\ SyncInit
  /\ VaultInit(<<>>)
  /\ NormIdle
  /\ FilterIdle
  /\ RouteIdle
  /\ credentials = [u \in Users |-> FALSE]

\* Whether the other client is at work: it is when the key was full at the
\* start, and it then calls in every second that has no call yet.
OtherActive(u) == \E e \in redis[RateKey(u)].zset : e.score < T0
CalledThisSecond(u) ==
  [member |-> Str(now), score |-> now] \in redis[RateKey(u)].zset

\* The other client's _rate_limit_check, the first call of this second
ROther(u) ==
  /\ OtherActive(u)
  /\ ~CalledThisSecond(u)
  /\ redis' = rate_limit_check(ClientInit(u), redis, now).redis
  /\ UNCHANGED <<flvars, rtvars, nzvars, crvars, now, rlvars, clvars, idle,
                 syvars>>

\* A second passes.
RTick ==
  /\ now < T0 + RMaxTicks
  /\ OtherActive("u1") => CalledThisSecond("u1")
  /\ now' = now + 1
  /\ UNCHANGED <<flvars, rtvars, nzvars, crvars, redis, rlvars, clvars, idle,
                 syvars>>

NextRetry ==
  \/ \E c \in Clients, sub \in BOOLEAN : CAuthenticate(c, "ok", "ok", sub)
  \/ \E c \in Clients, up \in UpOutcomes, sub \in BOOLEAN :
       CFetch(c, "activities", up, sub)
  \/ ROther("u1")
  \/ RTick

SpecRetry == InitRetry /\ [][NextRetry]_vars

\* ------------------------------------------------ rate limiter: the claims
Done == 1..Len(rlhist)
SameKey(i, j) == rlhist[i].key = rlhist[j].key

\* C3: the calls of several instances interleave only as whole pipelines, so
\* that for every key at most limit calls return true among the calls made
\* within any window of rl_window seconds.
C3_AtMostLimitPerWindow ==
  \A k \in RateKeys, s \in 0..now :
    Cardinality({i \in Done : /\ rlhist[i].key = k
                              /\ rlhist[i].ok
                              /\ s <= rlhist[i].ct
                              /\ rlhist[i].ct < s + rl_window}) <= rl_limit

\* C4: once limit calls have been made for a key within one window, at any
\* seconds of it (several of them in the same second included), the next call
\* for the key within that window returns false.
C4_NextCallRejected ==
  \A i \in Done :
    Cardinality({j \in 1..(i - 1) : /\ SameKey(i, j)
                                    /\ rlhist[j].ct <= rlhist[i].ct
                                    /\ rlhist[i].ct - rlhist[j].ct < rl_window})
        >= rl_limit
      => ~rlhist[i].ok

\* C5: is_allowed returns true iff the entries left in the key's set after the
\* removal of the old ones, before the insertion, number strictly less than
\* limit; the new entry is inserted and the expiry refreshed either way.
C5_TrueIffCountBelowLimit ==
  [][\A i \in Instances, late \in BOOLEAN :
       RLExecute(i, late) =>
         LET a == rlargs[i]
             left == {e \in Live(redis[a.key], now, late) :
                        e.score > a.current_time - rl_window}
             res == rlhist'[Len(rlhist')]
         IN /\ res.ok = (Cardinality(left) < rl_limit)
            /\ [member |-> Str(a.current_time), score |-> a.current_time]
                 \in redis'[a.key].zset
            /\ redis'[a.key].expireAt = now + rl_window]_vars

\* C5's case: a call that found exactly limit entries was refused, after one
\* that found fewer was let through.
C5_Witness ==
  \E i, j \in Done :
    /\ j < i /\ SameKey(i, j)
    /\ rlhist[j].ok /\ rlhist[j].count < rl_limit
    /\ ~rlhist[i].ok /\ rlhist[i].count = rl_limit

\* C6: when at least rl_window seconds have passed since the most recent call
\* on a key (every earlier call ran that long before this one read the clock),
\* the call returns true, whatever the limit >= 1 and whatever went before.
C6_AllowedAfterWindow ==
  \A i \in Done :
    (\A j \in 1..(i - 1) :
        SameKey(i, j) => rlhist[i].ct - rlhist[j].at >= rl_window)
      => rlhist[i].ok

\* C6's case: a call let through a full window after a call that was refused.
C6_Witness ==
  \E i, j \in Done :
    /\ j < i /\ SameKey(i, j) /\ ~rlhist[j].ok
    /\ \A m \in 1..(i - 1) :
         SameKey(i, m) => rlhist[i].ct - rlhist[m].at >= rl_window
    /\ rlhist[i].ok

\* ------------------------------------------------ GarminClient: the claims
Authenticated(c) == clients[c].authenticated
ThisSecond == [member |-> Str(now), score |-> now]
Rejected(c) == ~rate_limit_check(clients[c], redis, now).ok

\* C7: each of the five data methods, called on a client that is not
\* authenticated, raises the not-authenticated error (the metric fetchers too,
\* instead of returning None), after no upstream call and with the limiter's
\* store and the client untouched.
C7_UnauthenticatedFetchFails ==
  [][\A c \in Clients, kind \in FetchKinds, up \in UpOutcomes, sub \in BOOLEAN :
       ~Authenticated(c) /\ outcome'.op = kind /\ CFetch(c, kind, up, sub) =>
         /\ outcome'.ret = "ValueError"
         /\ outcome'.calls = 0
         /\ outcome'.attempts = 1
         /\ call'[c] = NoCall
         /\ redis' = redis
         /\ clients' = clients]_vars

\* C7's case: a metric fetcher has raised on a user's unauthenticated client.
C7_Witness ==
  /\ outcome.op \in MetricKinds
  /\ outcome.ret = "ValueError"
  /\ \E c \in Clients :
       outcome.client = c /\ ~Authenticated(c) /\ clients[c].user_id # NoUser

\* C8 as stated: an authenticated client is never unauthenticated again by an
\* operation on it, authenticate (whatever its outcome) and the data methods
\* included; only a new instance starts unauthenticated.
C8_NoPathBack ==
  [][\A c \in Clients :
       Authenticated(c) /\ ~clients'[c].authenticated => CNew(c)]_vars

\* C8 as the code has it: an authenticated client stays authenticated through
\* every data method, whatever its outcome, and through an authenticate call
\* that succeeds or that the rate limiter rejects; an authenticate call whose
\* handshake or validation call raises leaves it unauthenticated.
C8_OnlyFailedAuthenticateResets ==
  [][\A c \in Clients :
       /\ \A kind \in FetchKinds, up \in UpOutcomes, sub \in BOOLEAN :
            Authenticated(c) /\ outcome'.op = kind /\ CFetch(c, kind, up, sub)
              => clients'[c].authenticated
       /\ \A hs, val \in {"ok", "error"}, sub \in BOOLEAN :
            Authenticated(c) /\ outcome'.op = "authenticate"
              /\ CAuthenticate(c, hs, val, sub)
              => (clients'[c].authenticated
                    <=> (Rejected(c) \/ (hs = "ok" /\ val = "ok")))]_vars

\* C8's case: get_activities has failed upstream on an authenticated client,
\* which is still authenticated.
C8_Witness ==
  /\ outcome.op = "activities"
  /\ outcome.ret \in {"Exception", "RetryError"}
  /\ outcome.calls >= 1
  /\ \E c \in Clients : outcome.client = c /\ Authenticated(c)

\* C9: authenticate returns True or False whatever the handshake and the
\* validation call do; True only when both succeeded, and then the client is
\* authenticated; False whenever either of them raised.
C9_AuthenticateNeverRaises ==
  [][\A c \in Clients, hs, val \in {"ok", "error"}, sub \in BOOLEAN :
       outcome'.op = "authenticate" /\ CAuthenticate(c, hs, val, sub) =>
         /\ outcome'.ret \in {"True", "False"}
         /\ outcome'.ret = "True" =>
              hs = "ok" /\ val = "ok" /\ clients'[c].authenticated
         /\ (hs # "ok" \/ val # "ok") => outcome'.ret = "False"]_vars

\* C9's case: an authenticate call has gone through both upstream steps and
\* returned True.
C9_Witness ==
  /\ outcome.op = "authenticate"
  /\ outcome.ret = "True"
  /\ outcome.calls = 2
  /\ \E c \in Clients : outcome.client = c /\ Authenticated(c)

C11_RetryThenConnectionError ==
  [][\A c \in Clients, up \in UpOutcomes, sub \in BOOLEAN :
       /\ Authenticated(c) /\ ~Rejected(c) /\ outcome'.op = "activities"
       /\ CFetch(c, "activities", up, sub)
       => /\ outcome'.calls <= STOP_AFTER_ATTEMPT
          /\ up = "ok" => outcome'.ret = "data"
          /\ (up = "conn" /\ call[c].attempt + 1 < STOP_AFTER_ATTEMPT)
               => outcome'.ret = "retry"
          /\ (up = "conn" /\ call[c].attempt + 1 = STOP_AFTER_ATTEMPT)
               => outcome'.ret = "ConnectionError"]_vars

\* C12: an attempt of get_activities whose upstream call fails with an error
\* that is not of the connection/timeout class ends the call with that error:
\* nothing is tried again, and when it is the first attempt exactly one
\* upstream call has been made.
C12_OtherErrorNotRetried ==
  [][\A c \in Clients, sub \in BOOLEAN :
       /\ Authenticated(c) /\ ~Rejected(c) /\ outcome'.op = "activities"
       /\ CFetch(c, "activities", "other", sub)
       => /\ outcome'.ret = "Exception"
          /\ call'[c] = NoCall
          /\ outcome'.calls = call[c].calls + 1
          /\ call[c].attempt = 0 => outcome'.calls = 1]_vars

\* C12's case: get_activities has ended with the upstream error after one
\* upstream call.
C12_Witness ==
  /\ outcome.op = "activities"
  /\ outcome.ret = "Exception"
  /\ outcome.attempts = 1
  /\ outcome.calls = 1

\* C13: on an authenticated client that the limiter rejects, each of the
\* five data methods raises 'Rate limit exceeded' after no upstream call, and
\* the call ends there (it is not tried again).
C13_RateLimitedFetchRaises ==
  [][\A c \in Clients, kind \in FetchKinds, up \in UpOutcomes, sub \in BOOLEAN :
       /\ Authenticated(c) /\ Rejected(c) /\ outcome'.op = kind
       /\ CFetch(c, kind, up, sub)
       => /\ outcome'.ret = "RateLimitExceeded"
          /\ outcome'.calls = call[c].calls
          /\ call'[c] = NoCall
          /\ clients'[c] = clients[c]]_vars

\* C13's case: a metric fetcher has raised 'Rate limit exceeded' on an
\* authenticated client.
C13_Witness ==
  /\ outcome.op \in MetricKinds
  /\ outcome.ret = "RateLimitExceeded"
  /\ outcome.calls = 0
  /\ \E c \in Clients : outcome.client = c /\ Authenticated(c)

\* C14: when the upstream call of a metric fetcher fails with a
\* connection/timeout-class error and fewer than 3 attempts have been made,
\* the fetcher is attempted again rather than returning None.
C14_MetricFetchRetried ==
  [][\A c \in Clients, kind \in MetricKinds, sub \in BOOLEAN :
       /\ Authenticated(c) /\ ~Rejected(c) /\ outcome'.op = kind
       /\ CFetch(c, kind, "conn", sub)
       /\ call[c].attempt + 1 < STOP_AFTER_ATTEMPT
       => /\ outcome'.ret = "retry"
          /\ call'[c].kind = kind
          /\ call'[c].attempt = call[c].attempt + 1]_vars

\* ------------------------------------------------------ POST /sync: the claims
\* A request is a re-run when the sync that last ended for its user succeeded
\* with the same days and no other sync for the user has been in progress
\* since; prev_* is what that sync received, got_* what this one has so far.
IdenticalData(p) ==
  /\ sync[p].got_activities \subseteq sync[p].prev_activities
  /\ sync[p].got_metrics \subseteq sync[p].prev_metrics

\* C1: a re-run that receives from upstream nothing but what the preceding
\* successful sync received adds no activity and no health metric to its
\* session at any point, so that its commit persists nothing, and when it
\* answers it reports activities_synced = 0 and health_metrics_synced = 0.
C1_RerunAddsNothing ==
  \A p \in Procs :
    sync[p].rerun /\ IdenticalData(p) =>
      /\ sync[p].new_activities = {}
      /\ sync[p].new_metrics = {}
      /\ sync[p].activities_synced = 0
      /\ sync[p].health_metrics_synced = 0

\* C1's case: a re-run has completed after receiving the same activity and
\* the same metrics as the sync before it, which had stored them.
C1_Witness ==
  \E p \in Procs :
    /\ sync[p].pc = "done" /\ sync[p].status = 200 /\ sync[p].rerun
    /\ sync[p].got_activities = sync[p].prev_activities
    /\ sync[p].got_metrics = sync[p].prev_metrics
    /\ "a1" \in sync[p].got_activities
    /\ sync[p].got_metrics # {}
    /\ garmin_activities[sync[p].user_id]["a1"] = 1
    /\ sync[p].activities_synced = 0
    /\ sync[p].health_metrics_synced = 0

\* C2: whatever syncs have run and however their steps interleaved, the
\* committed rows hold no two activities with the same (user_id, activity_id)
\* and no two health metrics with the same (user_id, metric_type,
\* recorded_date).
C2_NoDuplicateRecords ==
  \A u \in Users :
    /\ \A a \in ActivityIds : garmin_activities[u][a] <= 1
    /\ \A m \in MetricKeys : garmin_health_metrics[u][m] <= 1

\* C16: a sync for a user without stored credentials is answered 404 by its
\* first step: no request for such a user gets past it, its client is never
\* authenticated, the user's rate-limit key holds no entry and the tables hold
\* no row of the user.
C16_NoCredentials404 ==
  \A u \in Users :
    ~credentials[u] =>
      /\ \A p \in Procs :
           (sync[p].user_id = u /\ sync[p].pc # "idle") =>
              /\ sync[p].pc = "done"
              /\ sync[p].status = 404
              /\ ~sync[p].client.authenticated
      /\ redis[RateKey(u)].zset = {}
      /\ \A a \in ActivityIds : garmin_activities[u][a] = 0
      /\ \A m \in MetricKeys : garmin_health_metrics[u][m] = 0

\* C16's case: a request for the user without credentials has been answered.
C16_Witness ==
  \E p \in Procs :
    /\ sync[p].pc = "done" /\ sync[p].status = 404
    /\ sync[p].user_id \in Users /\ ~credentials[sync[p].user_id]

\* C17: when the user has credentials and authenticate returns False, that
\* step answers 401: no data method is called (nothing has been received),
\* and both tables are as they were.
C17_AuthFailure401 ==
  [][\A p \in Procs, hs, val \in {"ok", "error"}, sub \in BOOLEAN :
       /\ sync[p].pc = "authenticate"
       /\ authenticate(sync[p].client, redis, now, sub, hs, val).ret = "False"
       /\ SyncAuthenticate(p, hs, val, sub)
       => /\ sync'[p].pc = "done"
          /\ sync'[p].status = 401
          /\ sync'[p].got_activities = {} /\ sync'[p].got_metrics = {}
          /\ garmin_activities' = garmin_activities
          /\ garmin_health_metrics' = garmin_health_metrics]_vars

\* C17's case: a request of the user with credentials has been answered 401.
C17_Witness ==
  \E p \in Procs :
    /\ sync[p].pc = "done" /\ sync[p].status = 401
    /\ credentials[sync[p].user_id]

\* C15: a metric fetch of a sync that fails, whatever the cause, is swallowed
\* to absent: the step that made it never ends the request with an error, the
\* sync goes on to the next metric kind or day, or to its commit.
C15_MetricFailureSwallowed ==
  [][\A p \in Procs, up \in UpOutcomes, sub \in BOOLEAN :
       /\ sync[p].pc = "metrics"
       /\ fetch_attempt(sync[p].client, redis, now, sub,
                        MetricOrder[sync[p].k], up).ret # "data"
       /\ SyncMetric(p, up, sub)
       => /\ sync'[p].pc \in {"metrics", "commit"}
          /\ sync'[p].status = 0]_vars

\* C19: a sync never overwrites. No step removes a row of either table or
\* changes the content of one: the rows of every activity_id and of every
\* (metric_type, recorded_date) only grow in number, and the contents found
\* under a key before a step are all still there after it.
C19_NeverOverwrites ==
  [][\A u \in Users :
       /\ \A a \in ActivityIds :
            /\ garmin_activities[u][a] <= garmin_activities'[u][a]
            /\ activity_raw_data[u][a] \subseteq activity_raw_data'[u][a]
       /\ \A m \in MetricKeys :
            /\ garmin_health_metrics[u][m] <= garmin_health_metrics'[u][m]
            /\ metric_data[u][m] \subseteq metric_data'[u][m]]_vars

\* C19's case: a sync has completed for which upstream returned its own
\* version of an activity and of a metric that other requests had stored, and
\* the stored rows still hold the other requests' versions only.
C19_Witness ==
  \E p \in Procs, m \in MetricKeys :
    /\ sync[p].pc = "done" /\ sync[p].status = 200
    /\ "a1" \in sync[p].got_activities
    /\ m \in sync[p].got_metrics
    /\ activity_raw_data[sync[p].user_id]["a1"] # {}
    /\ p \notin activity_raw_data[sync[p].user_id]["a1"]
    /\ metric_data[sync[p].user_id][m] # {}
    /\ p \notin metric_data[sync[p].user_id][m]

\* The committed rows and their contents
Persisted ==
  <<garmin_activities, garmin_health_metrics, activity_raw_data, metric_data>>

C20_MetricWindowClamped ==
  \A p \in Procs :
    (sync[p].pc = "done" /\ sync[p].status = 200) =>
      /\ sync[p].metric_fetches = 4 * Min(sync[p].days, DAYS_CAP)
      /\ sync[p].fetched =
           MetricKinds \X (0..(Min(sync[p].days, DAYS_CAP) - 1))
      /\ sync[p].start_date = 0 - sync[p].days
      /\ sync[p].sync_period_days = sync[p].days

\* C20's case: a sync asked for more days than the cap has answered 200.
C20_Witness ==
  \E p \in Procs :
    /\ sync[p].pc = "done" /\ sync[p].status = 200
    /\ sync[p].days > DAYS_CAP
    /\ sync[p].metric_fetches > 0

\* ------------------------------------------------------ the vault: claims
\* The texts handed to the last decrypt_credential call
GivenData == crypt.data_form # "canonical" \/ crypt.tampered
GivenSalt == [b64 |-> B64Decode(issued[crypt.with].salt), form |-> crypt.salt_form]

\* C25: encrypt then decrypt is a round trip. decrypt_credential, given the
\* encrypted_data and the salt that one call of encrypt_credential returned,
\* returns the plaintext of that call.
C25_EncryptDecryptRoundTrip ==
  (/\ crypt.op = "decrypt"
   /\ crypt.of = crypt.with
   /\ ~GivenData
   /\ GivenSalt = issued[crypt.of].salt)
  => /\ crypt.ret = "ok"
     /\ crypt.value = issued[crypt.of].credential

\* C25's case: the round trip of a password and of the empty string.
C25_Witness ==
  /\ crypt.op = "decrypt" /\ crypt.of = crypt.with /\ ~GivenData
  /\ GivenSalt = issued[crypt.of].salt
  /\ crypt.value = "pw1"
  /\ \E i \in 1..Len(issued) : issued[i].credential = ""

C21_OneActiveRecord ==
  \A u \in Users : Cardinality(ActiveRowsOf(user_credentials, u)) <= 1

\* C22: store then retrieve round-trips. A retrieve for a user whose last
\* completed store or revoke is a store returns the username and the password
\* of that store.
C22_StoreRetrieveRoundTrip ==
  [][\A p \in Procs, u \in VaultUsers :
       (vault[u].op = "store" /\ Retrieve(p, u))
       => /\ cred'[p].ret = "ok"
          /\ cred'[p].username = vault[u].username
          /\ cred'[p].password = vault[u].password]_vars

\* The user_id of every row, in table order: what a hard delete would shorten
RowOwners == [i \in 1..Len(user_credentials) |-> user_credentials[i].user_id]

\* C23: revocation is a soft delete in force until the next store. While the
\* last completed store or revoke of a user is a revoke, none of the user's
\* rows is active, a retrieve returns None without an error and a sync is
\* answered 404; and no step removes a row from the table.
C23_RevokedUntilNextStore ==
  [][/\ \A u \in VaultUsers :
          vault[u].op = "revoke" =>
            /\ ActiveRowsOf(user_credentials, u) = {}
            /\ \A p \in Procs :
                 /\ Retrieve(p, u) => cred'[p].ret = "None"
                 /\ LookupSyncStart(p, u, MaxDays) =>
                      sync'[p].pc = "done" /\ sync'[p].status = 404
     /\ \A i \in 1..Len(RowOwners) :
          i <= Len(RowOwners') /\ RowOwners'[i] = RowOwners[i]]_vars

\* C23's case: after a store and a revoke, the record is there with is_active
\* false, a retrieve has returned None and a sync has been answered 404.
C23_Witness ==
  \E p, q \in Procs, u \in VaultUsers :
    /\ vault[u].op = "revoke"
    /\ RowsOf(user_credentials, u) # {}
    /\ cred[p].op = "retrieve" /\ cred[p].user_id = u /\ cred[p].ret = "None"
    /\ sync[q].pc = "done" /\ sync[q].user_id = u /\ sync[q].status = 404

\* C24 as stated: revoke returns true exactly when it deactivated a record
\* that was active.
C24_TrueIffDeactivatedActive ==
  \A p \in Procs :
    (cred[p].op = "revoke" /\ cred[p].pc = "done")
    => (cred[p].ret = "True" <=> cred[p].deactivated > 0)

\* C24: revoke returns true exactly when the user has a credential record,
\* active or not, and false when no record exists; after it none of the
\* user's records is active.
C24_TrueIffRecordExists ==
  [][\A p \in Procs, u \in VaultUsers :
       Revoke(p, u)
       => /\ cred'[p].ret = "True" <=> RowsOf(user_credentials, u) # {}
          /\ cred'[p].ret \in {"True", "False"}
          /\ ActiveRowsOf(user_credentials', u) = {}]_vars

\* C24's case: a revoke of a user whose only record was already revoked has
\* returned true.
C24_Witness ==
  \E p \in Procs :
    /\ cred[p].op = "revoke" /\ cred[p].pc = "done"
    /\ cred[p].ret = "True" /\ cred[p].deactivated = 0
    /\ RowsOf(user_credentials, cred[p].user_id) # {}

\* C27: every call of encrypt_credential draws a fresh salt. Any two calls that
\* returned, of the same plaintext or not, returned different salts and
\* different ciphertexts, and in every record the password's salt differs from
\* the username's.
C27_FreshSaltEveryCall ==
  /\ \A i, j \in 1..Len(issued) :
       i # j => /\ issued[i].salt # issued[j].salt
                /\ issued[i].encrypted_data # issued[j].encrypted_data
  /\ \A i \in 1..Len(user_credentials) :
       user_credentials[i].salt # user_credentials[i].metadata_.username_salt

\* C27's case: the same plaintext was encrypted twice, and a store has
\* written its record.
C27_Witness ==
  /\ \E i, j \in 1..Len(issued) :
       i # j /\ issued[i].credential = issued[j].credential
  /\ \E p \in Procs :
       cred[p].op = "store" /\ cred[p].pc = "done" /\ cred[p].status = 200

\* C28: credential validation never raises. Whatever the upstream does and
\* whatever exception the attempt raises, the validation of a store request
\* returns True or False: True exactly when the handshake and the summary
\* call both went well and nothing raised. The request is never answered 500
\* by that step, and the attempt leaves the rate limiter's keys and every
\* other client as they were.
C28_ValidationNeverRaises ==
  [][\A p \in Procs, u \in VaultUsers, username \in Usernames,
        password \in Passwords, hs, val \in {"ok", "error"}, raised \in BOOLEAN :
       StoreValidate(p, u, username, password, hs, val, raised)
       => /\ cred'[p].ret =
               (IF hs = "ok" /\ val = "ok" /\ ~raised THEN "True" ELSE "False")
          /\ cred'[p].status # 500
          /\ redis' = redis /\ clients' = clients]_vars

\* C28's case: the attempt of a store request raised, and the request was
\* answered as one with invalid credentials.
C28_Witness ==
  \E p \in Procs :
    /\ cred[p].op = "store" /\ cred[p].pc = "done" /\ cred[p].raised
    /\ cred[p].ret = "False" /\ cred[p].status = 401

\* C29: the store endpoint validates before it persists. The step that
\* validates a store request changes no record, and answers 401 when the
\* validation returned False; a step changes the records only if it is the
\* write of a store request whose validation returned True, or a revoke.
C29_ValidateBeforePersist ==
  [][/\ \A p \in Procs :
          (cred[p].pc \in {"idle", "done"} /\ cred'[p].op = "store"
           /\ cred'[p] # cred[p])
          => /\ user_credentials' = user_credentials
             /\ credentials' = credentials
             /\ cred'[p].ret = "False"
                  => cred'[p].pc = "done" /\ cred'[p].status = 401
     /\ user_credentials' # user_credentials
          => \E p \in Procs :
               \/ /\ cred[p].op = "store" /\ cred[p].pc = "write"
                  /\ cred[p].ret = "True" /\ StoreWrite(p)
               \/ \E u \in VaultUsers : Revoke(p, u)]_vars

\* C29's case: a store whose credentials the upstream rejected was answered
\* 401, and another store, whose validation succeeded, has written.
C29_Witness ==
  \E p, q \in Procs :
    /\ cred[p].op = "store" /\ cred[p].pc = "done" /\ cred[p].status = 401
    /\ ~cred[p].raised
    /\ cred[q].op = "store" /\ cred[q].pc = "done" /\ cred[q].status = 200

\* The metric keys C30 is about, and the output field of each
NumericFields ==
  {<<"duration", "duration_seconds">>, <<"calories", "calories">>,
   <<"averageHR", "avg_heart_rate">>, <<"maxHR", "max_heart_rate">>}

\* C30: in the record normalize_activity returns, each of the four fields is
\* the source value truncated to an integer when the source is an int or a
\* float, and None for every other source value, numeric strings included.
C30_NumericOrAbsent ==
  normalized.ret = "ok" =>
    \A f \in NumericFields :
      LET v == Get(raw_activity, f[1])
      IN normalized[f[2]] = IF IsNumber(v) THEN int(v) ELSE PyNone

\* C31: normalize_activity is total on mappings. Given a dict, whatever its
\* keys and the types of their values, it returns a record; it raises only
\* when given something that is no mapping.
C31_TotalOnMappings ==
  normalized.ret # "none" => (normalized.ret = "ok" <=> IsMapping(raw_activity))

\* The records of the items that normalize to a non-empty activity_id, in
\* the order of the items
RECURSIVE Kept(_)
Kept(items) ==
  IF items = <<>> THEN <<>>
  ELSE LET n == normalize_activity(items[Len(items)])
           before == Kept(SubSeq(items, 1, Len(items) - 1))
       IN IF n.ret = "ok" /\ n.activity_id.text # "" THEN Append(before, n)
          ELSE before

\* C32: normalize_activities_batch never aborts on a bad item. For every list
\* it returns, and what it returns is, in input order, the normalized records
\* of the items that normalize to a non-empty activity_id; an item whose
\* normalization raises, a dict or not, is skipped.
C32_BatchNeverAborts ==
  normalized_activities.ret # "none" =>
    /\ normalized_activities.ret = "ok"
    /\ normalized_activities.list = Kept(raw_activities)

ListedForms ==
  {Missing, PyStr("invalid-date"), PyStr(IsoEarly), PyStr(IsoNaive), PyStr(IsoZ)}
InPeriod(activity) ==
  LET v == activity["startTimeLocal"]
  IN /\ v # Missing
     /\ IsIso(ReplaceZ(v.text))
     /\ Hour(fromisoformat(ReplaceZ(v.text))) >= Hour(start_date)
C33_NoItemIsFatal ==
  (/\ filtered_activities.ret # "none"
   /\ \A i \in DOMAIN activities : activities[i]["startTimeLocal"] \in ListedForms)
  => /\ filtered_activities.ret = "ok"
     /\ filtered_activities.list = SelectSeq(activities, InPeriod)

\* C35: a GET request for /health/summary with a user_id is answered by the
\* summary operation: status 200 with summary, total_metrics, period_days
\* and user_id, the summary grouping the user's metrics by type.
C35_SummaryIsServed ==
  (/\ response # NoResponse
   /\ request.method = "GET"
   /\ request.path = <<"health", "summary">>
   /\ request.user_id # {}
   /\ DaysOf(request) \in 1..MaxSummaryDays)
  => /\ response.endpoint = "get_health_summary"
     /\ response.status = 200
     /\ response.keys = {"summary", "total_metrics", "period_days", "user_id"}
     /\ response.types =
          {m[1] : m \in {k \in MetricKeys :
                          garmin_health_metrics[CHOOSE u \in request.user_id : TRUE][k] > 0}}

\* C36: budgets are per user. A client bound to user u consults the limiter
\* under garmin_requests:u with limit 60 and window 60, and its check leaves
\* every other user's key, and what is_allowed would answer for it, as they
\* were; a client without a user_id is always allowed and leaves the
\* limiter's store untouched.
C36_BudgetsArePerUser ==
  [][\A c \in Clients :
       BCheck(c) =>
         LET u == clients[c].user_id
             own == is_allowed(redis, <<"garmin_requests", u>>, 60, 60, now)
         IN IF u = NoUser
            THEN outcome'.ret = "True" /\ redis' = redis
            ELSE /\ (outcome'.ret = "True") = own.ok
                 /\ redis'[RateKey(u)] = own.redis[RateKey(u)]
                 /\ \A v \in Users \ {u} :
                      /\ redis'[RateKey(v)] = redis[RateKey(v)]
                      /\ is_allowed(redis', RateKey(v), 60, 60, now).ok
                           = is_allowed(redis, RateKey(v), 60, 60, now).ok]_vars

\* C36's case: u2's client has been let through and its call recorded under
\* u2's key while u1's budget is used up.
C36_Witness ==
  /\ outcome.op = "rate_limit_check"
  /\ outcome.ret = "True"
  /\ clients[outcome.client].user_id = "u2"
  /\ ThisSecond \in redis[RateKey("u2")].zset
  /\ ~is_allowed(redis, RateKey("u1"), 60, 60, now).ok

\* C37: a call that is_allowed rejects is recorded like any other, so it
\* counts against the later calls of its window: a later call on the key,
\* less than rl_window seconds after a rejected one, reads a count that
\* includes every call made on the key within its window, the rejected ones
\* too (each call running in the second it read the clock).
InWindowBefore(j) ==
  {m \in 1..(j - 1) : SameKey(m, j) /\ rlhist[j].ct - rlhist[m].ct < rl_window}
C37_RejectedCallsCount ==
  \A i, j \in Done :
    (/\ i < j /\ SameKey(i, j) /\ ~rlhist[i].ok
     /\ \A m \in 1..j : rlhist[m].ct = rlhist[m].at
     /\ rlhist[j].ct - rlhist[i].ct < rl_window)
    => rlhist[j].count >= Cardinality(InWindowBefore(j))

C39_ValidationIsUnmetered ==
  [][\A hs, val \in {"ok", "error"}, raised \in BOOLEAN :
       outcome'.op = "test_credentials" /\ BValidate(hs, val, raised) =>
         /\ outcome'.ret =
              (IF hs = "ok" /\ val = "ok" /\ ~raised THEN "True" ELSE "False")
         /\ \A u \in Users : redis'[RateKey(u)] = redis[RateKey(u)]]_vars

\* C39's case: one validation after another has succeeded while the budget
\* of every user is used up.
C39_Witness ==
  /\ outcome.op = "test_credentials"
  /\ outcome.ret = "True"
  /\ outcome.calls = MaxCalls
  /\ \A u \in Users : ~is_allowed(redis, RateKey(u), 60, 60, now).ok

\* C40: a sync whose authenticate the rate limiter rejects is answered as a
\* sync with bad upstream credentials is: 401, the answer holding nothing
\* that tells the two apart; no upstream call was made, no data method was
\* called and no table has changed.
C40_RateLimitedAuthIs401 ==
  [][\A p \in Procs, hs, val \in {"ok", "error"}, sub \in BOOLEAN :
       /\ sync[p].pc = "authenticate"
       /\ ~is_allowed(redis, RateKey(sync[p].user_id), 60, 60, now).ok
       /\ SyncAuthenticate(p, hs, val, sub)
       => /\ sync'[p].status = 401
          /\ sync'[p] = Answered(sync[p], 401)
          /\ authenticate(sync[p].client, redis, now, sub, hs, val).calls = 0
          /\ faults' = faults
          /\ sync'[p].got_activities = {} /\ sync'[p].got_metrics = {}
          /\ Persisted' = Persisted]_vars

\* C40's case: a sync of the user with credentials has been answered 401
\* although no upstream call has failed.
C40_Witness ==
  \E p \in Procs :
    /\ sync[p].pc = "done" /\ sync[p].status = 401
    /\ credentials[sync[p].user_id]
    /\ faults = 0

==============================================================================
